---- MODULE Spec2Model ----
(***************************************************************************)
(* Model of the PR -> OKR classification engine of prOKRMapper.py:         *)
(*   - the checkpointed batch runner (main, load_status, save_status,      *)
(*     check_pr_downloaded, check_okrs_exist,                              *)
(*     map_okrs_for_pr_with_classification);                               *)
(*   - the decision policy (hybrid_score, stage_b_enhanced_match,          *)
(*     classify_one_pr).                                                   *)
(* Files on disk (status files, okrs_<user>.csv, search CSVs) are the      *)
(* persistent state; the locals of main() are the per-process state.       *)
(***************************************************************************)
EXTENDS Integers, Sequences, FiniteSets, TLC

(***************************************************************************)
(* Bounds of the model                                                     *)
(***************************************************************************)
\* Rows of all search CSVs together, in Init and ChangeList.
MaxRows == 2
\* Times a search CSV is produced again.
MaxChanges == 1
\* Rows beyond the per-user cap, in InitCap.
ExtraRows == 1

(***************************************************************************)
(* Program constants                                                       *)
(***************************************************************************)
MAPPING_LIMIT_PER_USER == 10

users == <<"u1", "u2">>
task_types == <<"authored", "reviewer">>

UserSet == {users[i] : i \in 1..Len(users)}
TaskSet == {task_types[i] : i \in 1..Len(task_types)}
Keys == UserSet \X TaskSet
CapRows == MAPPING_LIMIT_PER_USER + ExtraRows
Docs == 1..CapRows
Procs == {1, 2}

VARIABLES
  okrs,        \* okrs[u]: the user has a non-empty parsed OKR file
  csv,         \* csv[k]: the task file and the search CSV of key k exist
  total,       \* total[k]: number of rows of the search CSV of key k
  missing,     \* the documents of which the three PR files are not all there
  resp,        \* <<u,d,o>>: classifying d for u has outcome o (fixed when first asked)
  cp,          \* cp[k]: the status file pr_<task>_okr_<user>_status.json
  results,     \* <<u,d,o>>: the file okrs_<user>.csv in the PR directory of d, holding o
  run,         \* run[p]: the locals of main() in process p
  changes,     \* number of times a search CSV was produced again
  cls,         \* the arguments, locals and result of one call of classify_one_pr
  bad,         \* the documents whose row of a search CSV has no readable pr_number
  zs,          \* the global _zero_shot_classifier of a process and its calls of classify_fallback
  hs,          \* the last two calls of hybrid_score: arguments and returned score
  emb,         \* one document in the embedding strategy: its chunks and similarities
  spent        \* spent[k]: the cost of all documents classified under key k so far

vars == <<okrs, csv, total, missing, resp, cp, results, run, changes, cls, bad, zs, hs, emb, spent>>

\* Largest list Init and ChangeList give to a user: the second user has at
\* most one row.
MaxLenOf(u) == IF u = users[1] THEN MaxRows ELSE 1

\* Half the cap: the shorter authored list of InitCap.
HalfCap == MAPPING_LIMIT_PER_USER \div 2

\* The document in row i (1-based) of the search CSV of key k.  Every list
\* names the documents in the same order, so a document of the reviewer list
\* of a user is also in the authored list of that user when that is as long.
Row(k, i) == i

\* Number of rows of all search CSVs together.
RECURSIVE SumRows(_, _)
SumRows(f, ks) ==
  IF ks = {} THEN 0
  ELSE LET k == CHOOSE x \in ks : TRUE IN f[k] + SumRows(f, ks \ {k})

\* load_status on a missing file.
NotStarted ==
  [exists |-> FALSE, status |-> "not_started", current_row |-> 0,
   mapped_count |-> 0, skipped_count |-> 0, readable |-> TRUE]

load_status_Fresh(k) == NotStarted

\* load_status: the stored dictionary, or the default when the file is missing.
load_status(k) == IF cp[k].exists THEN cp[k] ELSE NotStarted

\* load_status, lines 844-845: the file is there but is no JSON document,
\* and json.load raises.
load_status_raises(k) == cp[k].exists /\ ~cp[k].readable

\* A status file that was opened for writing (line 863) and not written:
\* its earlier content is lost.
Torn == [NotStarted EXCEPT !.exists = TRUE, !.readable = FALSE]

\* save_status: the dictionary as written to the file.
save_status(st) == [st EXCEPT !.exists = TRUE]

check_pr_downloaded(d) == d \notin missing

\* Line 1043: int(row.get('pr_number')) raises for the row of document d.
RowRaises(d) == d \in bad

HasObjectives_Always(u) == TRUE

\* Lines 937-938: the user has a parsed OKR file with at least one row.
HasObjectives(u) == okrs[u]

check_okrs_exist(u, d) == \E x \in results : x[1] = u /\ x[2] = d

\* The outcomes of a classification: an OKR match, a fallback category, or
\* no result (success is False).
Outcomes == {"okr", "fallback", "fail"}

\* save_classification_result: the file of (u, d) is written anew.
save_classification_result(u, d, o) ==
  {x \in results : ~(x[1] = u /\ x[2] = d)} \cup {<<u, d, o>>}

IsCompleted_Never(st) == FALSE

\* Line 992: the key was finished by an earlier invocation.
IsCompleted(st) == st.status = "completed"

Resume_FromZero(st) == 0

Resume_FromNext(st) == st.current_row + 1

\* Line 987: the row the loop over the rows starts from.
Resume(st) == st.current_row

\* Lines 1004 and 1011: no row is left for this invocation.
NothingToDo(current_row, total_prs) == total_prs = 0 \/ current_row >= total_prs

LoopStops_NoCap(idx, total_prs, user_classified) == idx >= total_prs

\* Lines 1034-1038: the loop over the rows ends, by exhaustion or by the cap.
LoopStops(idx, total_prs, user_classified) ==
  idx >= total_prs \/ user_classified >= MAPPING_LIMIT_PER_USER

ShouldSkip_Never(force, u, d) == FALSE

ShouldSkip_IgnoreForce(force, u, d) == check_okrs_exist(u, d)

\* Line 1056: the document is passed over as already classified.
ShouldSkip(force, u, d) == ~force /\ check_okrs_exist(u, d)

StatusNotDownloaded_Stay(st, idx) == st

\* Lines 1050-1051: the status dictionary after a document that is not downloaded.
StatusNotDownloaded(st, idx) == [st EXCEPT !.current_row = idx + 1]

StatusSkipped_AsMapped(st, idx, skipped) ==
  [st EXCEPT !.current_row = idx + 1, !.mapped_count = @ + 1]

StatusSkipped_KeepRow(st, idx, skipped) == [st EXCEPT !.skipped_count = skipped]

\* Lines 1062-1064: the status dictionary after a document that is passed over.
StatusSkipped(st, idx, skipped) ==
  [st EXCEPT !.current_row = idx + 1, !.skipped_count = skipped]

StatusClassified_KeepRow(st, idx, mapped, skipped) ==
  [st EXCEPT !.mapped_count = mapped, !.skipped_count = skipped]

\* Lines 1108-1111: the status dictionary after a classification, successful or not.
StatusClassified(st, idx, mapped, skipped) ==
  [st EXCEPT !.current_row = idx + 1, !.mapped_count = mapped, !.skipped_count = skipped]

\* Lines 1126-1128: the status dictionary when the loop got through all rows.
StatusCompleted(st, total_prs) ==
  [st EXCEPT !.status = "completed", !.current_row = total_prs]

\* The locals of a process that is not running.
Idle ==
  [pc |-> "idle", force |-> FALSE, ui |-> 0, ti |-> 0, user_classified |-> 0,
   okr_status |-> NotStarted, current_row |-> 0, classified_count |-> 0,
   skipped_count |-> 0, batch_classified |-> 0, batch_skipped |-> 0,
   idx |-> 0, total_prs |-> 0, written |-> {},
   users |-> <<>>, openai_api_key |-> FALSE, okr_embeddings |-> FALSE,
   used |-> {}, total_cost |-> 0, passed |-> {}]

\* The locals of the loop over the rows are assigned anew for every key
\* (lines 986-989, 1001, 1027-1028) before they are read; between two keys
\* their values are dead and are kept at their initial value here.
Forget(r) ==
  [r EXCEPT !.okr_status = NotStarted, !.current_row = 0, !.classified_count = 0,
            !.skipped_count = 0, !.batch_classified = 0, !.batch_skipped = 0,
            !.idx = 0, !.total_prs = 0]

KeyOf_TaskOnly(p) == <<users[1], task_types[run[p].ti]>>

\* Lines 953-958: the key in hand, which names the search CSV and the status
\* file: the user and the task type.
KeyOf(p) == <<run[p].users[run[p].ui], task_types[run[p].ti]>>

SavePcs == {"save_notdl", "save_skip", "save_ok", "save_fail"}
LoopPcs == {"doc", "classify"} \cup SavePcs

TypeOK ==
  /\ okrs \in [UserSet -> BOOLEAN]
  /\ csv \in [Keys -> BOOLEAN]
  /\ \A k \in Keys : total[k] \in 0..CapRows
  /\ missing \subseteq Docs
  /\ resp \subseteq UserSet \X Docs \X Outcomes
  /\ results \subseteq UserSet \X Docs \X {"okr", "fallback"}
  /\ \A k \in Keys : cp[k].status \in {"not_started", "in_progress", "completed"}
  /\ \A p \in Procs : run[p].pc \in {"idle", "user", "task", "mark_done", "mark_progress", "after", "done", "crashed"} \cup LoopPcs
  /\ cls.pc \in {"none", "called", "matched", "returned"}

(***************************************************************************)
(* The decision policy: hybrid_score, stage_b_enhanced_match,              *)
(* classify_fallback and classify_one_pr.                                  *)
(*                                                                         *)
(* Similarities, weights, boosts and thresholds are whole hundredths; a    *)
(* score is a whole number of the unit 1 / (100 * 100 * JaccardUnit), in   *)
(* which the weighted sum of hybrid_score is exact.  A document is the     *)
(* record of what the code reads from its text: whether it is blank, its   *)
(* acronyms and its other words.  An objective of the catalog is the       *)
(* record of its acronyms, its other words (keywords) and the similarity   *)
(* the strategy in use (embeddings or TF-IDF) gives between the document   *)
(* and the objective.  tokenize_words lowers the text, so an acronym of 3  *)
(* characters or more is also one of the words of its text.                *)
(* Indices into the catalog are 1-based; 0 stands for None.  A text has    *)
(* one token for each of its acronyms and words, and a cost is a whole     *)
(* number of 10^-8 dollars.                                                *)
(***************************************************************************)
\* Largest number of objectives in a catalog.
MaxOkrs == 3

FALLBACK_LABELS == <<"cleanup", "dependency-updates", "refactoring", "no-classification">>
B_SCORE_THRESHOLD == 33
B_MARGIN_THRESHOLD == 3
ACRONYM_BOOST_PER_MATCH == 8
ACRONYM_BOOST_MAX == 24
LEXICAL_WEIGHT == 12
EMBED_WEIGHT == 88

\* The acronyms and words the documents and objectives are made of.  The
\* second acronym is longer than 8 characters; the first and the third are
\* shorter than the 3 characters of a word.
Acronyms == {"UI", "KUBERNETES"}
TieAcronyms == {"UI", "DB"}
Words == {"cache", "latency"}

\* text.lower() on an acronym.
lower(a) ==
  CASE a = "KUBERNETES" -> "kubernetes"
    [] a = "UI" -> "ui"
    [] a = "DB" -> "db"

\* Lines 52 and 65: an acronym of the text is a run of 2 to 10 capitals and
\* digits between word boundaries, and in lower case it is one of the words
\* of the text when it has 3 characters or more.
acronym_words(acronyms) == {lower(a) : a \in {x \in acronyms : Len(x) >= 3}}

\* The similarities a strategy gives, in hundredths.
Sims == {30, 100}

\* The settings score_threshold and margin_threshold of user-settings.json,
\* in hundredths: the defaults, a margin threshold of zero, and higher ones.
ThresholdSettings ==
  {<<B_SCORE_THRESHOLD, B_MARGIN_THRESHOLD>>, <<B_SCORE_THRESHOLD, 0>>, <<88, 6>>}

Min(a, b) == IF a <= b THEN a ELSE b
Max(a, b) == IF a >= b THEN a ELSE b

RECURSIVE Factorial(_)
Factorial(n) == IF n = 0 THEN 1 ELSE n * Factorial(n - 1)

\* The words of the documents and objectives whose keywords overlap in part.
TieWords == {"cache", "latency", "retry", "queue", "shard"}

\* A denominator all Jaccard values over these words have in common.
JaccardUnit ==
  Factorial(Cardinality(Words \cup TieWords \cup acronym_words(Acronyms \cup TieAcronyms)))

\* The number 1.0 as a score.
ScoreOne == 100 * 100 * JaccardUnit

\* A number of hundredths as a score.
AsScore(h) == h * 100 * JaccardUnit

extract_acronyms(pr_text) == pr_text.acronyms

\* Line 65: the words of a text, those of its acronyms included.
tokenize_words(pr_text) == pr_text.words \cup acronym_words(pr_text.acronyms)

\* precompute_okr_data, line 429: the words of an objective.
okr_keywords(okr) == okr.keywords \cup acronym_words(okr.acronyms)

IsBlank_Never(pr_text) == FALSE

\* Line 682: not pr_text or not pr_text.strip().
IsBlank(pr_text) == pr_text.blank

hybrid_score_NoCap(embed_sim, pr_words, okr_words, acronym_overlap) ==
  LET jacc == IF pr_words = {} \/ okr_words = {} THEN 0
              ELSE (Cardinality(pr_words \cap okr_words) * JaccardUnit)
                     \div Max(1, Cardinality(pr_words \cup okr_words))
  IN EMBED_WEIGHT * embed_sim * JaccardUnit
       + LEXICAL_WEIGHT * jacc * 100
       + ACRONYM_BOOST_PER_MATCH * acronym_overlap * 100 * JaccardUnit

hybrid_score_NoLexical(embed_sim, pr_words, okr_words, acronym_overlap) ==
  EMBED_WEIGHT * embed_sim * JaccardUnit
    + Min(ACRONYM_BOOST_MAX, ACRONYM_BOOST_PER_MATCH * acronym_overlap) * 100 * JaccardUnit

hybrid_score(embed_sim, pr_words, okr_words, acronym_overlap) ==
  LET jacc == IF pr_words = {} \/ okr_words = {} THEN 0
              ELSE (Cardinality(pr_words \cap okr_words) * JaccardUnit)
                     \div Max(1, Cardinality(pr_words \cup okr_words))
      acronym_boost == Min(ACRONYM_BOOST_MAX, ACRONYM_BOOST_PER_MATCH * acronym_overlap)
  IN EMBED_WEIGHT * embed_sim * JaccardUnit
       + LEXICAL_WEIGHT * jacc * 100
       + acronym_boost * 100 * JaccardUnit

strong_acronyms_All(pr_acronyms) == pr_acronyms

\* Line 565: the acronyms of the document that may prune the catalog.
strong_acronyms(pr_acronyms) == {a \in pr_acronyms : Len(a) <= 8}

\* Line 570: the objectives that share a strong acronym with the document.
hits(okr_data, strong) ==
  SelectSeq([j \in 1..Len(okr_data) |-> j],
            LAMBDA j : okr_data[j].acronyms \cap strong # {})

\* Lines 566-573: the objectives that are scored.
candidate_indices(pr_text, okr_data) ==
  LET strong == strong_acronyms(extract_acronyms(pr_text)) IN
  IF strong # {} /\ hits(okr_data, strong) # <<>>
  THEN hits(okr_data, strong)
  ELSE [j \in 1..Len(okr_data) |-> j]

\* Lines 567-573.
was_filtered(pr_text, okr_data) ==
  LET strong == strong_acronyms(extract_acronyms(pr_text)) IN
  strong # {} /\ hits(okr_data, strong) # <<>>

\* Lines 613-618: the score of every candidate, in the order of the candidates.
hybrid_scores(pr_text, okr_data, cand) ==
  [k \in 1..Len(cand) |->
     hybrid_score(okr_data[cand[k]].sim,
                  tokenize_words(pr_text),
                  okr_keywords(okr_data[cand[k]]),
                  Cardinality(extract_acronyms(pr_text) \cap okr_data[cand[k]].acronyms))]

\* np.argmax: the first position of the largest value.
argmax(scores) ==
  CHOOSE k \in 1..Len(scores) :
    /\ \A j \in 1..Len(scores) : scores[j] <= scores[k]
    /\ \A j \in 1..(k - 1) : scores[j] < scores[k]

\* The sequence without its element at position k.
Without(s, k) == [i \in 1..(Len(s) - 1) |-> IF i < k THEN s[i] ELSE s[i + 1]]

\* np.sort(scores)[::-1]: the values in descending order.
RECURSIVE sorted_scores(_)
sorted_scores(scores) ==
  IF Len(scores) = 0 THEN <<>>
  ELSE LET k == argmax(scores) IN <<scores[k]>> \o sorted_scores(Without(scores, k))

margin_of_NoSingle(scores) ==
  IF Len(scores) > 1 THEN sorted_scores(scores)[1] - sorted_scores(scores)[2] ELSE 0

\* Lines 626-628.
margin_of(scores) ==
  IF Len(scores) > 1 THEN sorted_scores(scores)[1] - sorted_scores(scores)[2] ELSE ScoreOne

\* estimate_tokens, lines 331-336: the tokens of a text, one for each of its
\* acronyms and words.
estimate_tokens(text_acronyms, text_words) ==
  Cardinality(text_acronyms) + Cardinality(text_words)

\* Line 348: the price of a million tokens of text-embedding-3-large, in
\* hundredths of a dollar.
COST_PER_MILLION == 13

\* calculate_embedding_cost, lines 339-352, in units of 10^-8 dollars.
calculate_embedding_cost(tokens) == tokens * COST_PER_MILLION

\* precompute_okr_data (431-437) with get_okr_embeddings_batch (448-477): the
\* settings' openai_api_key, and whether the embeddings of the objectives
\* are there; without a key, or when the provider fails, they are None.
Configurations == {<<FALSE, FALSE>>, <<TRUE, TRUE>>, <<TRUE, FALSE>>}

\* Line 582: the embedding strategy is used, not TF-IDF.
uses_embeddings(openai_api_key, okr_embeddings) == openai_api_key /\ okr_embeddings

RECURSIVE okr_tokens(_, _)
\* Line 589: the tokens of the objectives that are scored.
okr_tokens(okr_data, cand) ==
  IF cand = <<>> THEN 0
  ELSE estimate_tokens(okr_data[Head(cand)].acronyms, okr_data[Head(cand)].keywords)
         + okr_tokens(okr_data, Tail(cand))

\* Lines 578-590: the tokens sent to the embedding provider; none with the
\* TF-IDF strategy.
tokens_used(pr_text, okr_data, openai_api_key, okr_embeddings) ==
  IF uses_embeddings(openai_api_key, okr_embeddings)
  THEN estimate_tokens(pr_text.acronyms, pr_text.words)
         + okr_tokens(okr_data, candidate_indices(pr_text, okr_data))
  ELSE 0

\* Lines 582-584 with get_pr_embeddings_with_chunking (480-511): the calls of
\* the embedding provider in stage_b_enhanced_match.
provider_calls(openai_api_key, okr_embeddings) ==
  IF uses_embeddings(openai_api_key, okr_embeddings) THEN 1 ELSE 0

\* stage_b_enhanced_match: the returned tuple.
stage_b_enhanced_match(pr_text, okr_data, openai_api_key, okr_embeddings) ==
  LET cand == candidate_indices(pr_text, okr_data)
      scores == hybrid_scores(pr_text, okr_data, cand)
      best_k == argmax(scores)
  IN [best_okr_idx |-> cand[best_k],
      best_score |-> scores[best_k],
      margin |-> margin_of(scores),
      was_filtered |-> was_filtered(pr_text, okr_data),
      tokens_used |-> tokens_used(pr_text, okr_data, openai_api_key, okr_embeddings),
      cost |-> calculate_embedding_cost(
                 tokens_used(pr_text, okr_data, openai_api_key, okr_embeddings))]

PassesThresholds_ScoreOnly(score, margin, score_threshold, margin_threshold) ==
  score >= AsScore(score_threshold)

\* Line 701.
PassesThresholds(score, margin, score_threshold, margin_threshold) ==
  score >= AsScore(score_threshold) /\ margin >= AsScore(margin_threshold)

\* classify_fallback: the default when the zero-shot classifier is not
\* there or fails, or the first label and score the classifier gives.
FallbackAnswers ==
  {<<"no-classification", ScoreOne>>} \cup
  {<<FALLBACK_LABELS[i], AsScore(60)>> : i \in 1..Len(FALLBACK_LABELS)}

NoMatch ==
  [best_okr_idx |-> 0, best_score |-> 0, margin |-> 0, was_filtered |-> FALSE,
   tokens_used |-> 0, cost |-> 0]

NoResult ==
  [label |-> "", confidence |-> 0, classification_type |-> "", method |-> "",
   okr_idx |-> 0, margin |-> 0, tokens |-> 0, cost |-> 0]

\* No call of classify_one_pr is looked at.
NoCall ==
  [pc |-> "none", pr_text |-> [blank |-> TRUE, acronyms |-> {}, words |-> {}],
   okr_data |-> <<>>, openai_api_key |-> FALSE, okr_embeddings |-> FALSE,
   score_threshold |-> 0, margin_threshold |-> 0,
   candidate_indices |-> <<>>, match |-> NoMatch, result |-> NoResult,
   embed_calls |-> 0, zs_calls |-> 0]

\* The documents: the blank one, and the ones with some text.
PrTexts ==
  {[blank |-> TRUE, acronyms |-> {}, words |-> {}]} \cup
  {[blank |-> FALSE, acronyms |-> a, words |-> w] : a \in SUBSET Acronyms, w \in {{}, Words}}

\* The objectives of a catalog.
Objectives == [sim : Sims, acronyms : {{}, {"UI"}}, keywords : {{}, {"cache"}}]

\* The catalogs: main() passes over a user whose catalog is empty (line 938).
Catalogs == UNION {[1..n -> Objectives] : n \in 1..MaxOkrs}

\* The similarities and the settings around the largest score_threshold
\* that a similarity equal to it still passes with one matching acronym.
PruneSims == {30, 66, 67}
PruneThresholds == {<<B_SCORE_THRESHOLD, B_MARGIN_THRESHOLD>>, <<66, 100>>, <<67, 0>>}

\* Documents and objectives with short and long acronyms and no keywords.
PruneTexts ==
  {[blank |-> TRUE, acronyms |-> {}, words |-> {}]} \cup
  {[blank |-> FALSE, acronyms |-> a, words |-> {}] : a \in SUBSET Acronyms}

PruneObjectives ==
  [sim : PruneSims, acronyms : {{}, {"UI"}, {"KUBERNETES"}}, keywords : {{}}]

PruneCatalogs == UNION {[1..n -> PruneObjectives] : n \in 1..MaxOkrs}

\* Documents with three or four words, and pairs of objectives whose
\* keywords are none, one, three, four or five of TieWords.
TieTexts ==
  {[blank |-> TRUE, acronyms |-> {}, words |-> {}]} \cup
  {[blank |-> FALSE, acronyms |-> a, words |-> w] :
     a \in SUBSET TieAcronyms,
     w \in {{}, {"cache", "latency", "retry"}, {"cache", "latency", "retry", "queue"}}}

TieObjectives ==
  [sim : Sims, acronyms : SUBSET TieAcronyms,
   keywords : {{}, {"queue"}, {"cache", "latency", "retry"},
               {"cache", "latency", "retry", "queue"}, TieWords}]

TieCatalogs == [1..2 -> TieObjectives]

(***************************************************************************)
(* get_pr_embeddings_with_chunking and chunk_text.  Lengths and positions  *)
(* in a text are in hundreds of characters; token counts are in tokens.    *)
(***************************************************************************)
\* Line 499: the provider's limit of tokens for one input.
TOKEN_LIMIT == 8000
\* Line 507: chunk_size=7000, overlap=300, max_chunks=4.
CHUNK_SIZE == 70
CHUNK_OVERLAP == 3
MAX_CHUNKS == 4
\* Line 501: pr_text[:30000].
SINGLE_LIMIT == 300
\* load_pr_text, line 291: combined_text[:20000].
TEXT_LIMIT == 200

\* The lengths of the documents.
TextLens == {1, 50, 70, 71, 134, 135, TEXT_LIMIT}

\* Tokens in a hundred characters: 25 is what the estimate without tiktoken
\* takes (len(text) // 4, line 123); tiktoken counts more in dense text.
TokenDensities == {25, 100, 200}

\* estimate_tokens_accurate, lines 121-125.
estimate_tokens_accurate(len, tokenizer, density) ==
  IF tokenizer = "False" THEN (len * 100) \div 4 ELSE len * density

RECURSIVE chunk_loop(_, _, _)
\* chunk_text, lines 85-89: the while loop, from position i with n chunks.
chunk_loop(len, i, n) ==
  IF i < len /\ n < MAX_CHUNKS
  THEN <<[from |-> i, to |-> Min(len, i + CHUNK_SIZE)]>>
         \o chunk_loop(len, i + (CHUNK_SIZE - CHUNK_OVERLAP), n + 1)
  ELSE <<>>

\* chunk_text, lines 80-91: the chunks, by their first position and the
\* position after their last.
chunk_text(len) ==
  IF len <= CHUNK_SIZE THEN <<[from |-> 0, to |-> len]>> ELSE chunk_loop(len, 0, 0)

\* get_pr_embeddings_with_chunking, lines 499-511: the inputs that are
\* sent to the provider.
get_pr_embeddings_with_chunking(len, tokens) ==
  IF tokens <= TOKEN_LIMIT
  THEN <<[from |-> 0, to |-> Min(len, SINGLE_LIMIT)]>>
  ELSE chunk_text(len)

\* The largest of the numbers of a non-empty set.
MaxOf(S) == CHOOSE x \in S : \A y \in S : y <= x

\* Line 599: the similarity of candidate j, from the similarities of the
\* chunks.
max_sims(sims, j) ==
  IF Len(sims) > 1 THEN MaxOf({sims[c][j] : c \in 1..Len(sims)}) ELSE sims[1][j]

\* No document is looked at.
NoEmbedding ==
  [pc |-> "none", len |-> 0, tokenizer |-> "False", density |-> 25, tokens |-> 0,
   chunks |-> <<>>, sims |-> <<>>, max_sims |-> <<>>]

\* Largest number of matching acronyms in a call of hybrid_score.
MaxOverlap == 4

\* The arguments of the calls of hybrid_score that are compared.
ScoreSims == {30, 100}
ScorePrWords == {{}, {"cache"}, {"cache", "latency"}}
ScoreOkrWords == {{}, {"cache"}, {"latency"}, {"cache", "latency"}}

\* No call of hybrid_score is looked at.
NoScore ==
  [called |-> FALSE, embed_sim |-> 0, pr_words |-> {}, okr_words |-> {},
   acronym_overlap |-> 0, score |-> 0]

NoScores == [prev |-> NoScore, cur |-> NoScore]

(***************************************************************************)
(* The zero-shot classifier: get_zero_shot_classifier and                  *)
(* classify_fallback.  The global _zero_shot_classifier is None before     *)
(* the first call, the pipeline once it is loaded, and False once loading  *)
(* has failed.                                                             *)
(***************************************************************************)
\* Largest number of calls of classify_fallback in a process.
MaxFallbackCalls == 3

\* What a call of the loaded classifier does: it gives its first label with
\* a score, or it raises.
ClassifierOutcomes ==
  {<<FALLBACK_LABELS[i], AsScore(60)>> : i \in 1..Len(FALLBACK_LABELS)} \cup {<<"raise", 0>>}

\* Lines 639-641 and 652-654: the default of classify_fallback.
FallbackDefault == <<"no-classification", ScoreOne>>

get_zero_shot_classifier_Forget(loaded) == IF loaded THEN "Loaded" ELSE "None"

\* get_zero_shot_classifier, lines 131-142: the global after an attempt to
\* load the pipeline.
get_zero_shot_classifier(loaded) == IF loaded THEN "Loaded" ELSE "False"

\* classify_fallback, lines 647-654: the returned tuple for an outcome of
\* the call of the classifier.
classify_fallback(outcome) == IF outcome[1] = "raise" THEN FallbackDefault ELSE outcome

\* A process that has not called classify_fallback.
NoFallback ==
  [pc |-> "idle", classifier |-> "None", loads |-> 0, log |-> <<>>]

\* precompute_okr_data, lines 431-437, with get_okr_embeddings_batch
\* (448-477): whether the embeddings of a user's objectives are there.  With
\* a key the provider gives them or fails, and a failure is turned into None.
precompute_okr_data(openai_api_key) == IF openai_api_key THEN BOOLEAN ELSE {FALSE}

\* The strategy of stage_b_enhanced_match for a document, line 582.
StrategyOf(openai_api_key, okr_embeddings) ==
  IF uses_embeddings(openai_api_key, okr_embeddings) THEN "embedding" ELSE "tfidf"

\* The tokens of the text of document d and of the objectives it is
\* compared with (lines 586-589).
DocTokens(d) == d + 1

\* The cost of classifying document d, lines 578-590: nothing with TF-IDF.
DocCost(d, openai_api_key, okr_embeddings) ==
  IF uses_embeddings(openai_api_key, okr_embeddings)
  THEN calculate_embedding_cost(DocTokens(d))
  ELSE 0

\* okr_status.get('cumulative_cost_usd', 0): the cumulative cost a status
\* dictionary carries.
cumulative_cost_usd(st) ==
  IF "cumulative_cost_usd" \in DOMAIN st THEN st["cumulative_cost_usd"] ELSE 0

(***************************************************************************)
(* Initial state: nothing classified yet, no status file written.          *)
(***************************************************************************)
Init ==
  /\ okrs \in [UserSet -> BOOLEAN]
  /\ csv = [k \in Keys |-> ~(k[1] = users[2] /\ k[2] = "reviewer")]
  /\ total \in {f \in [Keys -> 0..MaxRows] : \A k \in Keys : f[k] <= MaxLenOf(k[1]) /\ (~csv[k] => f[k] = 0)}
  /\ SumRows(total, Keys) <= MaxRows
  /\ missing \in SUBSET (1..MaxRows)
  /\ resp = {}
  /\ cp = [k \in Keys |-> NotStarted]
  /\ results = {}
  /\ run = [p \in Procs |-> Idle]
  /\ changes = 0
  /\ cls = NoCall
  /\ bad = {}
  /\ zs = NoFallback
  /\ hs = NoScores
  /\ emb = NoEmbedding
  /\ spent = [k \in Keys |-> 0]

(***************************************************************************)
(* Initial states with lists longer than the per-user cap: the first user  *)
(* has an authored list longer than the cap and no reviewer rows, or an    *)
(* authored list of half the cap and a reviewer list longer than the cap.  *)
(* The providers give                                                      *)
(* an OKR match for every document but the first, whose files may be       *)
(* missing and whose outcome is open.                                      *)
(***************************************************************************)
InitCap ==
  /\ okrs = [u \in UserSet |-> TRUE]
  /\ csv = [k \in Keys |-> ~(k[1] = users[2] /\ k[2] = "reviewer")]
  /\ total \in {f \in [Keys -> 0..CapRows] :
                 /\ \/ f[<<users[1], "authored">>] = CapRows /\ f[<<users[1], "reviewer">>] = 0
                    \/ f[<<users[1], "authored">>] = HalfCap /\ f[<<users[1], "reviewer">>] = CapRows
                 /\ f[<<users[2], "authored">>] = 1
                 /\ f[<<users[2], "reviewer">>] = 0}
  /\ missing \in SUBSET {1}
  /\ resp = {<<u, d, "okr">> : u \in UserSet, d \in 2..CapRows}
  /\ cp = [k \in Keys |-> NotStarted]
  /\ results = {}
  /\ run = [p \in Procs |-> Idle]
  /\ changes = 0
  /\ cls = NoCall
  /\ bad = {}
  /\ zs = NoFallback
  /\ hs = NoScores
  /\ emb = NoEmbedding
  /\ spent = [k \in Keys |-> 0]

(***************************************************************************)
(* main(), lines 867-926: a process starts an invocation; force is the     *)
(* setting force_recalculate_okrs of this invocation.                      *)
(***************************************************************************)
Start(p, f) ==
  /\ run[p].pc = "idle"
  /\ run' = [run EXCEPT ![p] = [Idle EXCEPT !.pc = "user", !.force = f, !.ui = 1,
                                             !.users = users]]
  /\ UNCHANGED <<okrs, csv, total, missing, resp, cp, results, changes, cls, bad, zs, hs, emb, spent>>

(***************************************************************************)
(* main(), lines 867-926, in an invocation with its own configuration:     *)
(* the users list us and the setting openai_api_key.                       *)
(***************************************************************************)
Invoke(p, f, us, openai_api_key) ==
  /\ run[p].pc = "idle"
  /\ run' = [run EXCEPT ![p] = [Idle EXCEPT !.pc = "user", !.force = f, !.ui = 1,
                                             !.users = us,
                                             !.openai_api_key = openai_api_key]]
  /\ UNCHANGED <<okrs, csv, total, missing, resp, cp, results, changes, cls, bad, zs, hs, emb, spent>>

(***************************************************************************)
(* main(), lines 927-946: head of the loop over users.                     *)
(***************************************************************************)
NextUser(p) ==
  /\ run[p].pc = "user"
  /\ \E okr_embeddings \in precompute_okr_data(run[p].openai_api_key) :
       run' = [run EXCEPT ![p] =
         IF run[p].ui > Len(run[p].users)
         THEN [@ EXCEPT !.pc = "done", !.user_classified = 0, !.okr_embeddings = FALSE]
         ELSE IF ~HasObjectives(run[p].users[run[p].ui])
         THEN [@ EXCEPT !.ui = @ + 1, !.okr_embeddings = FALSE]
         ELSE [@ EXCEPT !.pc = "task", !.ti = 1, !.user_classified = 0,
                        !.okr_embeddings = okr_embeddings]]
  /\ UNCHANGED <<okrs, csv, total, missing, resp, cp, results, changes, cls, bad, zs, hs, emb, spent>>

(***************************************************************************)
(* main(), lines 948-1021: head of the loop over task types, up to the     *)
(* decision what to do with the key.  load_status is called at line 986,   *)
(* outside the try of line 999: when it raises, the handler of lines       *)
(* 1170-1175 ends the invocation.                                          *)
(***************************************************************************)
LoadKey(p) ==
  /\ run[p].pc = "task"
  /\ LET r == run[p] IN
     run' = [run EXCEPT ![p] =
       IF r.ti > Len(task_types) \/ r.user_classified >= MAPPING_LIMIT_PER_USER
       THEN [r EXCEPT !.pc = "user", !.ui = @ + 1, !.ti = 0, !.user_classified = 0]
       ELSE IF ~csv[KeyOf(p)] THEN [r EXCEPT !.ti = @ + 1]
       ELSE IF load_status_raises(KeyOf(p)) THEN [r EXCEPT !.pc = "crashed"]
       ELSE LET st == load_status(KeyOf(p))
                loaded == [r EXCEPT !.okr_status = st,
                                    !.current_row = Resume(st),
                                    !.classified_count = st.mapped_count,
                                    !.skipped_count = st.skipped_count]
            IN IF IsCompleted(st) THEN [r EXCEPT !.ti = @ + 1]
               ELSE LET total_prs == total[KeyOf(p)] IN
                    IF NothingToDo(loaded.current_row, total_prs)
                    THEN [loaded EXCEPT !.pc = "mark_done", !.total_prs = total_prs]
                    ELSE [loaded EXCEPT !.pc = "mark_progress", !.total_prs = total_prs]]
  /\ UNCHANGED <<okrs, csv, total, missing, resp, cp, results, changes, cls, bad, zs, hs, emb, spent>>

(***************************************************************************)
(* main(), lines 1004-1017: nothing left to do for the key.                *)
(***************************************************************************)
MarkDone(p) ==
  /\ run[p].pc = "mark_done"
  /\ LET st == [run[p].okr_status EXCEPT !.status = "completed"] IN
     /\ cp' = [cp EXCEPT ![KeyOf(p)] = save_status(st)]
     /\ run' = [run EXCEPT ![p] = Forget([@ EXCEPT !.pc = "task", !.ti = @ + 1])]
  /\ UNCHANGED <<okrs, csv, total, missing, resp, results, changes, cls, bad, zs, hs, emb, spent>>

(***************************************************************************)
(* main(), lines 1022-1032: the key is taken in hand.                      *)
(***************************************************************************)
MarkProgress(p) ==
  /\ run[p].pc = "mark_progress"
  /\ LET st == [run[p].okr_status EXCEPT !.status = "in_progress"] IN
     /\ cp' = [cp EXCEPT ![KeyOf(p)] = save_status(st)]
     /\ run' = [run EXCEPT ![p] = [@ EXCEPT !.pc = "doc", !.okr_status = st,
                                             !.batch_classified = 0,
                                             !.batch_skipped = 0,
                                             !.idx = run[p].current_row]]
  /\ UNCHANGED <<okrs, csv, total, missing, resp, results, changes, cls, bad, zs, hs, emb, spent>>

(***************************************************************************)
(* main(), lines 1034-1066: head of the loop over the rows, the cap, and   *)
(* the two checks that pass over a document without classifying it.  A row *)
(* whose pr_number cannot be read raises at line 1043, inside the try of   *)
(* line 999 only: the handler of lines 1134-1137 ends the work on the key. *)
(* idx is 0-based as in the code; Row is 1-based.                          *)
(***************************************************************************)
Check(p) ==
  /\ run[p].pc = "doc"
  /\ LET r == run[p]
         u == r.users[r.ui]
         d == Row(KeyOf(p), r.idx + 1)
     IN run' = [run EXCEPT ![p] =
          IF LoopStops(r.idx, r.total_prs, r.user_classified)
          THEN [r EXCEPT !.pc = "after"]
          ELSE IF RowRaises(d)
          THEN Forget([r EXCEPT !.pc = "task", !.ti = @ + 1])
          ELSE IF ~check_pr_downloaded(d)
          THEN [r EXCEPT !.pc = "save_notdl",
                         !.passed = @ \cup {<<u, task_types[r.ti], r.idx>>},
                         !.current_row = r.idx + 1,
                         !.okr_status = StatusNotDownloaded(@, r.idx)]
          ELSE IF ShouldSkip(r.force, u, d)
          THEN [r EXCEPT !.pc = "save_skip",
                         !.batch_skipped = @ + 1,
                         !.current_row = r.idx + 1,
                         !.okr_status = StatusSkipped(@, r.idx, r.skipped_count + r.batch_skipped + 1)]
          ELSE [r EXCEPT !.pc = "classify"]]
  /\ UNCHANGED <<okrs, csv, total, missing, resp, cp, results, changes, cls, bad, zs, hs, emb, spent>>

(***************************************************************************)
(* main(), lines 1068-1111 with map_okrs_for_pr_with_classification        *)
(* (774-830): classify the document and write okrs_<user>.csv.  The        *)
(* outcome o is what classify_one_pr and the providers give for this       *)
(* (user, document): an OKR match, a fallback category, or a failure       *)
(* (text shorter than 10 characters, or an exception of a provider), in    *)
(* which case nothing is written and success is False.                     *)
(***************************************************************************)
Classify(p) ==
  /\ run[p].pc = "classify"
  /\ LET r == run[p]
         u == r.users[r.ui]
         d == Row(KeyOf(p), r.idx + 1)
     IN \E o \in Outcomes :
          /\ \A x \in resp : x[1] = u /\ x[2] = d => x[3] = o
          /\ resp' = resp \cup {<<u, d, o>>}
          /\ IF o = "fail"
             THEN /\ results' = results
                  /\ spent' = spent
                  /\ run' = [run EXCEPT ![p] =
                       [r EXCEPT !.pc = "save_fail",
                                 !.passed = @ \cup {<<u, task_types[r.ti], r.idx>>},
                                 !.current_row = r.idx + 1,
                                 !.okr_status = StatusClassified(@, r.idx,
                                                    r.classified_count + r.batch_classified,
                                                    r.skipped_count + r.batch_skipped)]]
             ELSE /\ results' = save_classification_result(u, d, o)
                  /\ spent' = [spent EXCEPT ![KeyOf(p)] =
                                 @ + DocCost(d, r.openai_api_key, r.okr_embeddings)]
                  /\ run' = [run EXCEPT ![p] =
                       [r EXCEPT !.pc = "save_ok",
                                 !.batch_classified = @ + 1,
                                 !.user_classified = @ + 1,
                                 !.written = @ \cup {<<u, task_types[r.ti], r.idx>>},
                                 !.used = @ \cup {StrategyOf(r.openai_api_key,
                                                             r.okr_embeddings)},
                                 !.total_cost = @ + DocCost(d, r.openai_api_key,
                                                            r.okr_embeddings),
                                 !.current_row = r.idx + 1,
                                 !.okr_status = StatusClassified(@, r.idx,
                                                    r.classified_count + r.batch_classified + 1,
                                                    r.skipped_count + r.batch_skipped)]]
  /\ UNCHANGED <<okrs, csv, total, missing, cp, changes, cls, bad, zs, hs, emb>>

(***************************************************************************)
(* main(), lines 1052, 1065, 1112: the status file is written after the    *)
(* document, and the loop goes to the next row.                            *)
(***************************************************************************)
SaveRow(p) ==
  /\ run[p].pc \in SavePcs
  /\ cp' = [cp EXCEPT ![KeyOf(p)] = save_status(run[p].okr_status)]
  /\ run' = [run EXCEPT ![p] = [@ EXCEPT !.pc = "doc", !.idx = @ + 1]]
  /\ UNCHANGED <<okrs, csv, total, missing, resp, results, changes, cls, bad, zs, hs, emb, spent>>

(***************************************************************************)
(* main(), lines 1122-1132: after the loop over the rows.                  *)
(***************************************************************************)
After(p) ==
  /\ run[p].pc = "after"
  /\ LET r == run[p] IN
     IF r.current_row >= r.total_prs
     THEN LET st == StatusCompleted(r.okr_status, r.total_prs) IN
          /\ cp' = [cp EXCEPT ![KeyOf(p)] = save_status(st)]
          /\ run' = [run EXCEPT ![p] = Forget([r EXCEPT !.pc = "task", !.ti = @ + 1])]
     ELSE /\ cp' = cp
          /\ run' = [run EXCEPT ![p] = Forget([r EXCEPT !.pc = "task", !.ti = @ + 1])]
  /\ UNCHANGED <<okrs, csv, total, missing, resp, results, changes, cls, bad, zs, hs, emb, spent>>

(***************************************************************************)
(* main(), lines 1143-1164: the invocation ends.                           *)
(***************************************************************************)
Finish(p) ==
  /\ run[p].pc = "done"
  /\ run' = [run EXCEPT ![p] = Idle]
  /\ UNCHANGED <<okrs, csv, total, missing, resp, cp, results, changes, cls, bad, zs, hs, emb, spent>>

(***************************************************************************)
(* The process is terminated from outside; its locals are lost, the files  *)
(* stay as they are.                                                       *)
(***************************************************************************)
Kill(p) ==
  /\ run[p].pc \notin {"idle", "done"}
  /\ run' = [run EXCEPT ![p] = Idle]
  /\ UNCHANGED <<okrs, csv, total, missing, resp, cp, results, changes, cls, bad, zs, hs, emb, spent>>

(***************************************************************************)
(* The search CSV of a key is produced again by the search stage, with one *)
(* row more or one row less; this happens between invocations.             *)
(***************************************************************************)
ChangeList(k) ==
  /\ \A p \in Procs : run[p].pc = "idle"
  /\ csv[k]
  /\ changes < MaxChanges
  /\ changes' = changes + 1
  /\ \E n \in {total[k] - 1, total[k] + 1} :
       /\ n \in 0..MaxLenOf(k[1])
       /\ total' = [total EXCEPT ![k] = n]
       /\ SumRows(total', Keys) <= MaxRows
  /\ UNCHANGED <<okrs, csv, missing, resp, cp, results, run, cls, bad, zs, hs, emb, spent>>

(***************************************************************************)
(* One call of classify_one_pr, on any document, catalog and thresholds.   *)
(***************************************************************************)
InitClassify ==
  /\ okrs = [u \in UserSet |-> TRUE]
  /\ csv = [k \in Keys |-> FALSE]
  /\ total = [k \in Keys |-> 0]
  /\ missing = {}
  /\ resp = {}
  /\ cp = [k \in Keys |-> NotStarted]
  /\ results = {}
  /\ run = [p \in Procs |-> Idle]
  /\ changes = 0
  /\ bad = {}
  /\ zs = NoFallback
  /\ hs = NoScores
  /\ emb = NoEmbedding
  /\ spent = [k \in Keys |-> 0]
  /\ \E pr_text \in PrTexts, okr_data \in Catalogs, t \in ThresholdSettings,
        c \in Configurations :
       cls = [NoCall EXCEPT !.pc = "called", !.pr_text = pr_text, !.okr_data = okr_data,
                            !.openai_api_key = c[1], !.okr_embeddings = c[2],
                            !.score_threshold = t[1], !.margin_threshold = t[2]]

(***************************************************************************)
(* One call of classify_one_pr on a catalog whose objectives differ in     *)
(* their acronyms.                                                         *)
(***************************************************************************)
InitPrune ==
  /\ okrs = [u \in UserSet |-> TRUE]
  /\ csv = [k \in Keys |-> FALSE]
  /\ total = [k \in Keys |-> 0]
  /\ missing = {}
  /\ resp = {}
  /\ cp = [k \in Keys |-> NotStarted]
  /\ results = {}
  /\ run = [p \in Procs |-> Idle]
  /\ changes = 0
  /\ bad = {}
  /\ zs = NoFallback
  /\ hs = NoScores
  /\ emb = NoEmbedding
  /\ spent = [k \in Keys |-> 0]
  /\ \E pr_text \in PruneTexts, okr_data \in PruneCatalogs, t \in PruneThresholds,
        openai_api_key \in BOOLEAN :
       cls = [NoCall EXCEPT !.pc = "called", !.pr_text = pr_text, !.okr_data = okr_data,
                            !.openai_api_key = openai_api_key,
                            !.okr_embeddings = openai_api_key,
                            !.score_threshold = t[1], !.margin_threshold = t[2]]

(***************************************************************************)
(* One call of classify_one_pr on a catalog of two objectives that differ  *)
(* in their keywords and acronyms.                                         *)
(***************************************************************************)
InitTie ==
  /\ okrs = [u \in UserSet |-> TRUE]
  /\ csv = [k \in Keys |-> FALSE]
  /\ total = [k \in Keys |-> 0]
  /\ missing = {}
  /\ resp = {}
  /\ cp = [k \in Keys |-> NotStarted]
  /\ results = {}
  /\ run = [p \in Procs |-> Idle]
  /\ changes = 0
  /\ bad = {}
  /\ zs = NoFallback
  /\ hs = NoScores
  /\ emb = NoEmbedding
  /\ spent = [k \in Keys |-> 0]
  /\ \E pr_text \in TieTexts, okr_data \in TieCatalogs, openai_api_key \in BOOLEAN :
       cls = [NoCall EXCEPT !.pc = "called", !.pr_text = pr_text, !.okr_data = okr_data,
                            !.openai_api_key = openai_api_key,
                            !.okr_embeddings = openai_api_key,
                            !.score_threshold = B_SCORE_THRESHOLD,
                            !.margin_threshold = B_MARGIN_THRESHOLD]

(***************************************************************************)
(* classify_one_pr, lines 681-693: the text is blank.                      *)
(***************************************************************************)
ClassifyEmpty ==
  /\ cls.pc = "called"
  /\ IsBlank(cls.pr_text)
  /\ cls' = [cls EXCEPT !.pc = "returned",
                        !.result = [label |-> "no-classification", confidence |-> ScoreOne,
                                    classification_type |-> "fallback", method |-> "empty",
                                    okr_idx |-> 0, margin |-> 0, tokens |-> 0, cost |-> 0]]
  /\ UNCHANGED <<okrs, csv, total, missing, resp, cp, results, run, changes, bad, zs, hs, emb, spent>>

(***************************************************************************)
(* classify_one_pr, lines 695-698: the objectives are scored.              *)
(***************************************************************************)
StageB ==
  /\ cls.pc = "called"
  /\ ~IsBlank(cls.pr_text)
  /\ cls' = [cls EXCEPT !.pc = "matched",
                        !.embed_calls = @ + provider_calls(cls.openai_api_key,
                                                           cls.okr_embeddings),
                        !.candidate_indices = candidate_indices(cls.pr_text, cls.okr_data),
                        !.match = stage_b_enhanced_match(cls.pr_text, cls.okr_data,
                                                         cls.openai_api_key,
                                                         cls.okr_embeddings)]
  /\ UNCHANGED <<okrs, csv, total, missing, resp, cp, results, run, changes, bad, zs, hs, emb, spent>>

(***************************************************************************)
(* classify_one_pr, lines 700-715: the best objective is accepted.         *)
(***************************************************************************)
ClassifyOkr ==
  /\ cls.pc = "matched"
  /\ PassesThresholds(cls.match.best_score, cls.match.margin,
                      cls.score_threshold, cls.margin_threshold)
  /\ cls' = [cls EXCEPT !.pc = "returned",
                        !.result = [label |-> "okr_text", confidence |-> cls.match.best_score,
                                    classification_type |-> "okr", method |-> "stage_b",
                                    okr_idx |-> cls.match.best_okr_idx,
                                    margin |-> cls.match.margin,
                                    tokens |-> cls.match.tokens_used,
                                    cost |-> cls.match.cost]]
  /\ UNCHANGED <<okrs, csv, total, missing, resp, cp, results, run, changes, bad, zs, hs, emb, spent>>

(***************************************************************************)
(* classify_one_pr, lines 717-729 with classify_fallback (633-654): the    *)
(* document gets a fallback category.                                      *)
(***************************************************************************)
ClassifyFallback ==
  /\ cls.pc = "matched"
  /\ ~PassesThresholds(cls.match.best_score, cls.match.margin,
                       cls.score_threshold, cls.margin_threshold)
  /\ \E classifier \in {"Loaded", "False"}, outcome \in ClassifierOutcomes :
       LET a == IF classifier = "False" THEN FallbackDefault ELSE classify_fallback(outcome) IN
       /\ a \in FallbackAnswers
       /\ cls' = [cls EXCEPT !.pc = "returned",
                             !.zs_calls = @ + (IF classifier = "False" THEN 0 ELSE 1),
                             !.result = [label |-> a[1], confidence |-> a[2],
                                         classification_type |-> "fallback",
                                         method |-> "zero_shot",
                                         okr_idx |-> 0, margin |-> cls.match.margin,
                                         tokens |-> cls.match.tokens_used,
                                         cost |-> cls.match.cost]]
  /\ UNCHANGED <<okrs, csv, total, missing, resp, cp, results, run, changes, bad, zs, hs, emb, spent>>

(***************************************************************************)
(* Initial states with rows that cannot be read: every user has            *)
(* objectives and every document is downloaded.                            *)
(***************************************************************************)
InitFaults ==
  /\ okrs = [u \in UserSet |-> TRUE]
  /\ csv = [k \in Keys |-> ~(k[1] = users[2] /\ k[2] = "reviewer")]
  /\ total \in {f \in [Keys -> 0..MaxRows] : \A k \in Keys : f[k] <= MaxLenOf(k[1]) /\ (~csv[k] => f[k] = 0)}
  /\ SumRows(total, Keys) <= MaxRows
  /\ missing = {}
  /\ resp = {}
  /\ cp = [k \in Keys |-> NotStarted]
  /\ results = {}
  /\ run = [p \in Procs |-> Idle]
  /\ changes = 0
  /\ cls = NoCall
  /\ bad \in SUBSET (1..MaxRows)
  /\ zs = NoFallback
  /\ hs = NoScores
  /\ emb = NoEmbedding
  /\ spent = [k \in Keys |-> 0]

\* The steps of main() that write a status file.
Writes(p) ==
  \/ run[p].pc \in SavePcs \cup {"mark_done", "mark_progress"}
  \/ run[p].pc = "after" /\ run[p].current_row >= run[p].total_prs

(***************************************************************************)
(* The process is terminated inside save_status, after the file was opened *)
(* for writing (line 863) and before json.dump has written it (line 864).  *)
(***************************************************************************)
KillInWrite(p) ==
  /\ Writes(p)
  /\ cp' = [cp EXCEPT ![KeyOf(p)] = Torn]
  /\ run' = [run EXCEPT ![p] = Idle]
  /\ UNCHANGED <<okrs, csv, total, missing, resp, results, changes, cls, bad, zs, hs, emb, spent>>

(***************************************************************************)
(* main(), lines 1170-1175: an exception outside the try of line 999 ends  *)
(* the invocation with sys.exit(1).                                        *)
(***************************************************************************)
Abort(p) ==
  /\ run[p].pc = "crashed"
  /\ run' = [run EXCEPT ![p] = Idle]
  /\ UNCHANGED <<okrs, csv, total, missing, resp, cp, results, changes, cls, bad, zs, hs, emb, spent>>

(***************************************************************************)
(* Calls of classify_fallback in one process.                              *)
(***************************************************************************)
InitFallback ==
  /\ okrs = [u \in UserSet |-> TRUE]
  /\ csv = [k \in Keys |-> FALSE]
  /\ total = [k \in Keys |-> 0]
  /\ missing = {}
  /\ resp = {}
  /\ cp = [k \in Keys |-> NotStarted]
  /\ results = {}
  /\ run = [p \in Procs |-> Idle]
  /\ changes = 0
  /\ cls = NoCall
  /\ bad = {}
  /\ zs = NoFallback
  /\ hs = NoScores
  /\ emb = NoEmbedding
  /\ spent = [k \in Keys |-> 0]

(***************************************************************************)
(* classify_fallback, line 643, with get_zero_shot_classifier (127-143):   *)
(* the pipeline is loaded when the global is None; loading succeeds or     *)
(* raises.                                                                 *)
(***************************************************************************)
GetClassifier ==
  /\ zs.pc = "idle"
  /\ Len(zs.log) < MaxFallbackCalls
  /\ IF zs.classifier = "None"
     THEN \E loaded \in BOOLEAN :
            zs' = [zs EXCEPT !.pc = "got", !.loads = @ + 1,
                             !.classifier = get_zero_shot_classifier(loaded)]
     ELSE zs' = [zs EXCEPT !.pc = "got"]
  /\ UNCHANGED <<okrs, csv, total, missing, resp, cp, results, run, changes, cls, bad, hs, emb, spent>>

(***************************************************************************)
(* classify_fallback, lines 645-647: the classifier is not there.          *)
(***************************************************************************)
FallbackWithoutClassifier ==
  /\ zs.pc = "got"
  /\ zs.classifier = "False"
  /\ zs' = [zs EXCEPT !.pc = "idle",
                      !.log = Append(@, [classifier |-> zs.classifier, called |-> FALSE,
                                         raised |-> FALSE, result |-> FallbackDefault])]
  /\ UNCHANGED <<okrs, csv, total, missing, resp, cp, results, run, changes, cls, bad, hs, emb, spent>>

(***************************************************************************)
(* classify_fallback, lines 649-654: the classifier is called.             *)
(***************************************************************************)
FallbackWithClassifier ==
  /\ zs.pc = "got"
  /\ zs.classifier # "False"
  /\ \E outcome \in ClassifierOutcomes :
       zs' = [zs EXCEPT !.pc = "idle",
                        !.log = Append(@, [classifier |-> zs.classifier, called |-> TRUE,
                                           raised |-> outcome[1] = "raise",
                                           result |-> classify_fallback(outcome)])]
  /\ UNCHANGED <<okrs, csv, total, missing, resp, cp, results, run, changes, cls, bad, hs, emb, spent>>

(***************************************************************************)
(* Calls of hybrid_score (514-540), one after the other.                   *)
(***************************************************************************)
InitScore ==
  /\ okrs = [u \in UserSet |-> TRUE]
  /\ csv = [k \in Keys |-> FALSE]
  /\ total = [k \in Keys |-> 0]
  /\ missing = {}
  /\ resp = {}
  /\ cp = [k \in Keys |-> NotStarted]
  /\ results = {}
  /\ run = [p \in Procs |-> Idle]
  /\ changes = 0
  /\ cls = NoCall
  /\ bad = {}
  /\ zs = NoFallback
  /\ hs = NoScores
  /\ emb = NoEmbedding
  /\ spent = [k \in Keys |-> 0]

HybridScore ==
  /\ \E embed_sim \in ScoreSims, pr_words \in ScorePrWords, okr_words \in ScoreOkrWords,
        acronym_overlap \in 0..MaxOverlap :
       hs' = [prev |-> hs.cur,
              cur |-> [called |-> TRUE, embed_sim |-> embed_sim, pr_words |-> pr_words,
                       okr_words |-> okr_words, acronym_overlap |-> acronym_overlap,
                       score |-> hybrid_score(embed_sim, pr_words, okr_words,
                                              acronym_overlap)]]
  /\ UNCHANGED <<okrs, csv, total, missing, resp, cp, results, run, changes, cls, bad, zs, emb, spent>>

(***************************************************************************)
(* One document in the embedding strategy, against two candidates.         *)
(***************************************************************************)
InitEmbed ==
  /\ okrs = [u \in UserSet |-> TRUE]
  /\ csv = [k \in Keys |-> FALSE]
  /\ total = [k \in Keys |-> 0]
  /\ missing = {}
  /\ resp = {}
  /\ cp = [k \in Keys |-> NotStarted]
  /\ results = {}
  /\ run = [p \in Procs |-> Idle]
  /\ changes = 0
  /\ cls = NoCall
  /\ bad = {}
  /\ zs = NoFallback
  /\ hs = NoScores
  /\ spent = [k \in Keys |-> 0]
  /\ \E len \in TextLens, tokenizer \in {"tiktoken", "False"}, density \in TokenDensities :
       emb = [NoEmbedding EXCEPT !.pc = "called", !.len = len, !.tokenizer = tokenizer,
                                 !.density = density]

(***************************************************************************)
(* stage_b_enhanced_match, line 584: get_pr_embeddings_with_chunking.      *)
(***************************************************************************)
EmbedText ==
  /\ emb.pc = "called"
  /\ LET tokens == estimate_tokens_accurate(emb.len, emb.tokenizer, emb.density) IN
     emb' = [emb EXCEPT !.pc = "embedded", !.tokens = tokens,
                        !.chunks = get_pr_embeddings_with_chunking(emb.len, tokens)]
  /\ UNCHANGED <<okrs, csv, total, missing, resp, cp, results, run, changes, cls, bad, zs, hs, spent>>

(***************************************************************************)
(* stage_b_enhanced_match, lines 593-599: the cosine similarities of every *)
(* chunk and candidate, and the similarity kept for each candidate.        *)
(***************************************************************************)
ChunkSimilarities ==
  /\ emb.pc = "embedded"
  /\ \E sims \in [1..Len(emb.chunks) -> [1..2 -> Sims]] :
       emb' = [emb EXCEPT !.pc = "compared", !.sims = sims,
                          !.max_sims = [j \in 1..2 |-> max_sims(sims, j)]]
  /\ UNCHANGED <<okrs, csv, total, missing, resp, cp, results, run, changes, cls, bad, zs, hs, spent>>

Steps(p) ==
  \/ NextUser(p)
  \/ LoadKey(p)
  \/ MarkDone(p)
  \/ MarkProgress(p)
  \/ Check(p)
  \/ Classify(p)
  \/ SaveRow(p)
  \/ After(p)
  \/ Finish(p)

Runner(p) ==
  \/ Steps(p)
  \/ Kill(p)

\* One process at a time, over document lists that do not change.
NextFixed ==
  \/ \E f \in BOOLEAN : Start(1, f)
  \/ Runner(1)

\* One process at a time; the search CSVs may change between invocations.
Next ==
  \/ NextFixed
  \/ \E k \in Keys : ChangeList(k)

Spec == Init /\ [][Next]_vars

SpecFixed == Init /\ [][NextFixed]_vars

SpecCap == InitCap /\ [][NextFixed]_vars

\* One process at a time over fixed lists, with rows that cannot be read and
\* kills inside a write of a status file.
NextFaults ==
  \/ NextFixed
  \/ KillInWrite(1)
  \/ Abort(1)

SpecFaults == InitFaults /\ [][NextFaults]_vars

\* One process at a time over fixed lists, with an API key in the settings,
\* force_recalculate off, and every invocation running to its end.
NextKeyed ==
  \/ Invoke(1, FALSE, users, TRUE)
  \/ Steps(1)

SpecKeyed == Init /\ [][NextKeyed]_vars

\* Two processes at the same time over fixed lists, each invoked with a users
\* list of its own: the first user for one, the second user for the other.
NextDisjoint ==
  \/ \E f \in BOOLEAN : Invoke(1, f, <<users[1]>>, FALSE)
  \/ \E f \in BOOLEAN : Invoke(2, f, <<users[2]>>, FALSE)
  \/ Steps(1)
  \/ Steps(2)

SpecDisjoint == Init /\ [][NextDisjoint]_vars

\* Two processes at the same time over fixed lists, both invoked on the first
\* user with force_recalculate off, so that they work on the same keys.
NextShared ==
  \/ Invoke(1, FALSE, <<users[1]>>, FALSE)
  \/ Invoke(2, FALSE, <<users[1]>>, FALSE)
  \/ Steps(1)
  \/ Steps(2)

\* The initial states in which the first user has objectives, the second
\* user has no rows, and only the first document can be not downloaded.
InitShared ==
  /\ Init
  /\ okrs[users[1]]
  /\ \A k \in Keys : k[1] = users[2] => total[k] = 0
  /\ missing \subseteq {1}

SpecShared == InitShared /\ [][NextShared]_vars

NextEmbed ==
  \/ EmbedText
  \/ ChunkSimilarities

SpecEmbed == InitEmbed /\ [][NextEmbed]_vars

NextScore == HybridScore

SpecScore == InitScore /\ [][NextScore]_vars

NextFallback ==
  \/ GetClassifier
  \/ FallbackWithoutClassifier
  \/ FallbackWithClassifier

SpecFallback == InitFallback /\ [][NextFallback]_vars

NextClassify ==
  \/ ClassifyEmpty
  \/ StageB
  \/ ClassifyOkr
  \/ ClassifyFallback

SpecClassify == InitClassify /\ [][NextClassify]_vars

SpecPrune == InitPrune /\ [][NextClassify]_vars

SpecTie == InitTie /\ [][NextClassify]_vars

(***************************************************************************)
(* Properties of the decision policy                                       *)
(***************************************************************************)

\* The objectives that are scored for the call in cls, as a set.
Cand ==
  LET c == candidate_indices(cls.pr_text, cls.okr_data) IN {c[k] : k \in 1..Len(c)}

\* The hybrid score of objective j for the document of the call in cls.
ScoreOf(j) ==
  hybrid_score(cls.okr_data[j].sim, tokenize_words(cls.pr_text),
               okr_keywords(cls.okr_data[j]),
               Cardinality(extract_acronyms(cls.pr_text) \cap cls.okr_data[j].acronyms))

\* The hybrid score of every candidate.
Scores == [j \in Cand |-> ScoreOf(j)]

\* The highest of the scores sc.
BestOf(sc) ==
  CHOOSE b \in {sc[j] : j \in DOMAIN sc} : \A j \in DOMAIN sc : sc[j] <= b

\* The highest of the scores sc of the candidates other than one with the
\* best score b.
SecondOf(sc, b) ==
  LET top == CHOOSE j \in DOMAIN sc : sc[j] = b
      rest == {sc[j] : j \in DOMAIN sc \ {top}}
  IN CHOOSE x \in rest : \A y \in rest : y <= x

\* Best minus second best, 1.0 with one candidate.
MarginOf(sc, b) == IF Cardinality(DOMAIN sc) = 1 THEN ScoreOne ELSE b - SecondOf(sc, b)

\* C1: for a document with non-empty text, the score and margin
\* classify_one_pr decides on are the highest hybrid score among the
\* candidates and that score minus the second highest (1.0 with exactly one
\* candidate); the result is an objective match, on a candidate with the
\* highest score, iff best >= score_threshold and margin >= margin_threshold,
\* and a fallback category naming no objective in every other case.
C1_MatchIffThresholds ==
  (cls.pc \in {"matched", "returned"} /\ ~IsBlank(cls.pr_text))
    => LET sc == Scores
           best == BestOf(sc)
           margin == MarginOf(sc, best)
       IN /\ cls.match.best_score = best
          /\ cls.match.margin = margin
          /\ cls.pc = "returned"
               => /\ cls.result.classification_type \in {"okr", "fallback"}
                  /\ cls.result.classification_type = "okr"
                       <=> (/\ best >= AsScore(cls.score_threshold)
                            /\ margin >= AsScore(cls.margin_threshold))
                  /\ cls.result.classification_type = "okr"
                       => /\ cls.result.okr_idx \in DOMAIN sc
                          /\ sc[cls.result.okr_idx] = best
                          /\ cls.result.confidence = best
                  /\ cls.result.classification_type = "fallback"
                       => cls.result.okr_idx = 0
                  /\ cls.result.margin = margin

\* C1 witness: three candidates, two of them tied for the highest score,
\* which is above the score threshold, and a margin threshold above zero:
\* the result is a fallback category.
C1_Witness ==
  /\ cls.pc = "returned" /\ ~IsBlank(cls.pr_text)
  /\ cls.result.classification_type = "fallback"
  /\ cls.margin_threshold > 0
  /\ LET sc == Scores
         best == BestOf(sc)
     IN /\ Cardinality(DOMAIN sc) = 3
        /\ Cardinality({j \in DOMAIN sc : sc[j] = best}) = 2
        /\ best >= AsScore(cls.score_threshold)

(***************************************************************************)
(* Properties of the batch runner                                          *)
(***************************************************************************)

\* The rows of key k, 1-based.
Rows(k) == 1..total[k]

\* Process p is in the loop over the rows and has a document in hand.
InHand(p) ==
  /\ run[p].pc = "doc"
  /\ ~LoopStops(run[p].idx, run[p].total_prs, run[p].user_classified)

\* The document process p has in hand.
DocOf(p) == Row(KeyOf(p), run[p].idx + 1)

\* C2: with force_recalculate = false a document that has a MatchResult is
\* never classified again: when the runner reaches it, it runs no
\* classification, leaves the stored MatchResult as it is, and the status it
\* persists next has skipped_count one higher and current_row one higher,
\* mapped_count unchanged; a classification is only started for a document
\* without a MatchResult.
C2_SkipWritesNothing ==
  [][\A p \in Procs :
       /\ (InHand(p) /\ ~run[p].force /\ check_pr_downloaded(DocOf(p))
             /\ check_okrs_exist(users[run[p].ui], DocOf(p)) /\ run'[p] # run[p])
          => \/ run'[p].pc = "idle"
             \/ /\ run'[p].pc = "save_skip"
                /\ results' = results /\ resp' = resp /\ cp' = cp
                /\ run'[p].okr_status.skipped_count = cp[KeyOf(p)].skipped_count + 1
                /\ run'[p].okr_status.current_row = cp[KeyOf(p)].current_row + 1
                /\ run'[p].okr_status.mapped_count = cp[KeyOf(p)].mapped_count
       /\ (run[p].pc = "save_skip" /\ run'[p].pc = "doc")
          => /\ results' = results /\ resp' = resp
             /\ cp'[KeyOf(p)].skipped_count = cp[KeyOf(p)].skipped_count + 1
             /\ cp'[KeyOf(p)].current_row = cp[KeyOf(p)].current_row + 1
             /\ cp'[KeyOf(p)].mapped_count = cp[KeyOf(p)].mapped_count
       /\ (run[p].pc = "classify" /\ ~run[p].force)
          => ~check_okrs_exist(users[run[p].ui], DocOf(p))
    ]_vars

\* C2 witness: without force, the runner has passed over a document of the
\* reviewer list that has a MatchResult, and has persisted that.
C2_Witness ==
  /\ run[1].pc = "doc" /\ ~run[1].force /\ run[1].ti = 2
  /\ run[1].batch_skipped = 1
  /\ cp[KeyOf(1)].skipped_count = 1
  /\ cp[KeyOf(1)].current_row = 1

\* C3: while the runner is in the loop over the rows of a key, the persisted
\* current_row is the index of the document in hand: every document handled
\* before it, whatever its outcome, is below the persisted current_row, and
\* the document in hand is the only one that may be handled and not yet
\* persisted; the status about to be written has current_row = index + 1.
C3_RowPersistedAfterEachDoc ==
  \A p \in Procs :
    /\ run[p].pc \in LoopPcs
       => /\ cp[KeyOf(p)].current_row = run[p].idx
          /\ cp[KeyOf(p)].status = "in_progress"
    /\ run[p].pc \in SavePcs
       => run[p].okr_status.current_row = run[p].idx + 1

\* C3 witness: the runner is about to start the third row after a first
\* document whose classification failed and a second one that is not
\* downloaded; the persisted current_row is 2.
C3_Witness ==
  /\ run[1].pc = "doc" /\ run[1].idx = 2
  /\ <<users[run[1].ui], 1, "fail">> \in resp
  /\ 2 \in missing
  /\ cp[KeyOf(1)].current_row = 2

\* C4: every step leaves the persisted current_row of every key unchanged or
\* raises it by exactly one.
C4_RowMonotone ==
  [][\A k \in Keys :
       \/ cp'[k].current_row = cp[k].current_row
       \/ cp'[k].current_row = cp[k].current_row + 1]_vars

\* C4 witness: an invocation with force has resumed a key after a kill and
\* raised its persisted current_row to 2.
C4_Witness ==
  /\ run[1].pc = "doc" /\ run[1].force
  /\ run[1].current_row = 2 /\ run[1].batch_classified + run[1].batch_skipped = 1
  /\ cp[KeyOf(1)].current_row = 2

\* The status of key k before and after a step.
StatusStep(k, a, b) == cp[k].status = a /\ cp'[k].status = b

\* C5 (as claimed): the status of a key only moves not_started ->
\* in_progress -> completed, never from not_started to completed.
C5_LinearPath ==
  [][\A k \in Keys :
       \/ cp'[k].status = cp[k].status
       \/ StatusStep(k, "not_started", "in_progress")
       \/ StatusStep(k, "in_progress", "completed")]_vars

\* C5 (amended): the status of a key only moves not_started -> in_progress
\* -> completed, or from not_started to completed when the document list is
\* empty; it never moves backwards and completed is never left.
C5_PathOrEmptyList ==
  [][\A k \in Keys :
       \/ cp'[k].status = cp[k].status
       \/ StatusStep(k, "not_started", "in_progress")
       \/ StatusStep(k, "in_progress", "completed")
       \/ StatusStep(k, "not_started", "completed") /\ total[k] = 0]_vars

\* C5 witness: one key was completed through the loop over its rows, another
\* with an empty list was completed without being in progress, and an
\* invocation has started after that.
C5_Witness ==
  /\ run[1].pc = "user"
  /\ \E k1, k2 \in Keys :
       /\ cp[k1].status = "completed" /\ cp[k1].current_row > 0
       /\ cp[k2].status = "completed" /\ cp[k2].current_row = 0 /\ total[k2] = 0

\* C6 (as claimed): whenever a status with completed is written, its
\* current_row is the number of rows of the list of the key.
C6_CompletedAtTotal ==
  [][\A k \in Keys :
       (cp'[k] # cp[k] /\ cp'[k].status = "completed")
         => cp'[k].current_row = total[k]]_vars

\* C7: when the runner comes to a key whose persisted status is completed,
\* its step changes neither a status file nor a MatchResult, asks no
\* provider, and goes on to the next task type, whatever force_recalculate
\* is and however long the list is.
C7_CompletedIsNoOp ==
  [][\A p \in Procs :
       (/\ run[p].pc = "task"
        /\ run[p].ti <= Len(task_types)
        /\ run[p].user_classified < MAPPING_LIMIT_PER_USER
        /\ csv[KeyOf(p)]
        /\ cp[KeyOf(p)].status = "completed"
        /\ run'[p] # run[p])
       => /\ cp' = cp /\ results' = results /\ resp' = resp
          /\ \/ run'[p].pc = "idle"
             \/ run'[p].pc = "task" /\ run'[p].ti = run[p].ti + 1]_vars

\* C7 witness: an invocation with force has gone past the authored key of
\* the first user, which is completed although its list has grown since.
C7_Witness ==
  /\ run[1].pc = "task" /\ run[1].force /\ run[1].ui = 1 /\ run[1].ti = 2
  /\ cp[<<users[1], "authored">>].status = "completed"
  /\ cp[<<users[1], "authored">>].current_row < total[<<users[1], "authored">>]

\* The MatchResults an uninterrupted run over all rows leaves for user u:
\* the fixed outcome of every downloaded document, unless it is a failure.
Expected(u) == {x \in resp : x[1] = u /\ x[3] # "fail" /\ x[2] \notin missing}

\* The keys of user u that have a list.
KeysOf(u) == {k \in Keys : k[1] = u /\ csv[k]}

WrittenFor(p, u) == {w \in run[p].written : w[1] = u}

\* C10: in one invocation at most MAPPING_LIMIT_PER_USER documents of a user
\* are classified, over both task types; rows passed over do not count; when
\* the cap ends the loop over the rows, the persisted current_row is the
\* first row not handled and the status stays in_progress; a completed key
\* has all its rows handled.
C10_CapPerUser ==
  /\ \A p \in Procs : \A u \in UserSet :
       Cardinality(WrittenFor(p, u)) <= MAPPING_LIMIT_PER_USER
  /\ \A p \in Procs :
       run[p].pc \in LoopPcs \cup {"after"}
         => run[p].user_classified = Cardinality(WrittenFor(p, users[run[p].ui]))
  /\ \A p \in Procs :
       (run[p].pc = "after" /\ run[p].idx < run[p].total_prs)
         => /\ run[p].user_classified = MAPPING_LIMIT_PER_USER
            /\ cp[KeyOf(p)].current_row = run[p].idx
            /\ cp[KeyOf(p)].status = "in_progress"
  /\ \A k \in Keys : cp[k].status = "completed" => cp[k].current_row = total[k]

\* C10 witness: the cap has ended the loop over the reviewer rows of a user
\* after rows that were passed over and rows that were classified.
C10_Witness ==
  /\ run[1].pc = "after" /\ run[1].ti = 2
  /\ run[1].idx < run[1].total_prs
  /\ run[1].batch_skipped > 0
  /\ run[1].batch_classified > 0
  /\ run[1].user_classified = MAPPING_LIMIT_PER_USER

(***************************************************************************)
(* Properties of the batch runner under failures                           *)
(***************************************************************************)

\* The keys the runner works on: the user has objectives, the task file and
\* the search CSV are there.
Workable(k) == HasObjectives(k[1]) /\ csv[k]

\* The rows of all lists of user u together are fewer than the cap.
BelowCap(u) == SumRows(total, {k \in Keys : k[1] = u}) < MAPPING_LIMIT_PER_USER

\* C11 (as claimed, for lists shorter than the cap): re-invoking the runner
\* brings every key of a user with objectives to completed, and failures of
\* documents only delay that; so an invocation that runs to its end over
\* lists shorter than the cap, where the cap delays nothing, leaves every
\* such key completed.
C11_RunToEndCompletes ==
  \A p \in Procs :
    run[p].pc = "done"
      => \A k \in Keys : (Workable(k) /\ BelowCap(k[1])) => cp[k].status = "completed"

\* C12 (as claimed): when the status of a key is completed, every downloaded
\* document of its list has a MatchResult for the user, also a document
\* whose classification failed.
C12_CompletedHasAllResults ==
  \A k \in Keys :
    cp[k].status = "completed"
      => \A i \in Rows(k) :
           check_pr_downloaded(Row(k, i)) => check_okrs_exist(k[1], Row(k, i))

\* C13 (as claimed): a failure on one row does not end the work on the key:
\* when the row in hand cannot be read, the runner stays in the loop over
\* the rows of the key and goes on with the next row.
C13_RowFailureKeepsLoop ==
  [][\A p \in Procs :
       (InHand(p) /\ RowRaises(DocOf(p)) /\ run'[p] # run[p])
         => \/ run'[p].pc = "idle"
            \/ run'[p].pc \in LoopPcs /\ run'[p].ti = run[p].ti]_vars

\* C14 (as claimed): a status file that cannot be read is treated as
\* not_started with current_row 0 and zero counts, and the runner goes on
\* with the key.
C14_UnreadableIsNotStarted ==
  [][\A p \in Procs :
       (/\ run[p].pc = "task"
        /\ run[p].ti <= Len(task_types)
        /\ run[p].user_classified < MAPPING_LIMIT_PER_USER
        /\ csv[KeyOf(p)]
        /\ load_status_raises(KeyOf(p))
        /\ run'[p] # run[p])
       => \/ run'[p].pc = "idle"
          \/ /\ run'[p].pc \in {"mark_done", "mark_progress"}
             /\ run'[p].okr_status.status = "not_started"
             /\ run'[p].current_row = 0
             /\ run'[p].classified_count = 0
             /\ run'[p].skipped_count = 0]_vars

\* C15: for a user without an objective catalog no status file is created
\* or changed, no MatchResult is written, no classification is asked for,
\* and the runner is never at work on a key of that user.
C15_NoObjectivesSkipsUser ==
  \A u \in UserSet :
    ~okrs[u]
      => /\ \A k \in Keys : k[1] = u => cp[k] = NotStarted
         /\ \A x \in results : x[1] # u
         /\ \A x \in resp : x[1] # u
         /\ \A p \in Procs :
              run[p].pc \in {"task", "mark_done", "mark_progress", "after", "crashed"} \cup LoopPcs
                => users[run[p].ui] # u

\* C15 witness: an invocation has run to its end; it passed over the first
\* user, who has no objectives, and classified a document of the second.
C15_Witness ==
  /\ run[1].pc = "done"
  /\ ~okrs[users[1]] /\ okrs[users[2]]
  /\ cp[<<users[2], "authored">>].status = "completed"
  /\ cp[<<users[2], "authored">>].mapped_count = 1
  /\ \E x \in results : x[1] = users[2]

(***************************************************************************)
(* Properties of the zero-shot classifier                                  *)
(***************************************************************************)

\* C16: every call of classify_fallback returns a label of FALLBACK_LABELS
\* with a confidence and raises nothing; when the classifier failed to load,
\* in this call or an earlier one, or the call of the classifier raised, the
\* result is no-classification with confidence 1.0; loading is attempted at
\* most once in a process, and once it has failed no later call calls the
\* classifier.
C16_FallbackNeverRaises ==
  /\ zs.loads <= 1
  /\ zs.classifier = "None" => zs.log = <<>>
  /\ \A i \in 1..Len(zs.log) :
       LET e == zs.log[i] IN
       /\ \E n \in 1..Len(FALLBACK_LABELS) : e.result[1] = FALLBACK_LABELS[n]
       /\ (e.classifier = "False" \/ e.raised) => e.result = FallbackDefault
       /\ e.classifier = "False" => ~e.called
       /\ e.classifier \in {"Loaded", "False"}
       /\ \A j \in i..Len(zs.log) : zs.log[j].classifier = e.classifier

\* C16 witness: loading failed in the first call, and two later calls have
\* returned the default without a call of the classifier.
C16_Witness ==
  /\ zs.pc = "idle" /\ Len(zs.log) = 3 /\ zs.loads = 1
  /\ zs.classifier = "False"
  /\ \A i \in 1..3 : ~zs.log[i].called /\ zs.log[i].result = FallbackDefault

(***************************************************************************)
(* Properties of classify_one_pr and stage_b_enhanced_match                *)
(***************************************************************************)

\* C17: for a document whose text is empty, classify_one_pr returns a
\* fallback result with the label no-classification, confidence 1.0,
\* tokens 0 and cost 0.0, and has called neither the embedding provider nor
\* the zero-shot classifier, for any catalog and any thresholds.
C17_EmptyTextIsFree ==
  (cls.pc = "returned" /\ cls.pr_text.blank) =>
    /\ cls.result.classification_type = "fallback"
    /\ cls.result.label = "no-classification"
    /\ cls.result.confidence = ScoreOne
    /\ cls.result.tokens = 0
    /\ cls.result.cost = 0
    /\ cls.embed_calls = 0
    /\ cls.zs_calls = 0

\* C17 witness: a call with an empty text, an API key and a catalog of two
\* objectives or more has returned.
C17_Witness ==
  /\ cls.pc = "returned" /\ cls.pr_text.blank
  /\ cls.openai_api_key /\ Len(cls.okr_data) >= 2
  /\ cls.result.method = "empty"

\* The objectives that share an acronym of at most 8 characters with the
\* document of the call.
Sharing ==
  {j \in 1..Len(cls.okr_data) :
     \E a \in cls.pr_text.acronyms \cap cls.okr_data[j].acronyms : Len(a) <= 8}

\* The objectives that were scored in the call.
Scored == {cls.candidate_indices[k] : k \in 1..Len(cls.candidate_indices)}

\* C18: the objectives scored by stage_b_enhanced_match are the ones that
\* share a strong acronym (at most 8 characters) with the document when
\* there are any, and the full catalog otherwise; the scored set is never
\* empty, was_filtered is true exactly in the first case, and the best
\* objective is one of the scored ones.
C18_ScoredSet ==
  cls.pc \in {"matched", "returned"} /\ ~cls.pr_text.blank =>
    /\ Scored = IF Sharing # {} THEN Sharing ELSE 1..Len(cls.okr_data)
    /\ Scored # {}
    /\ cls.match.was_filtered <=> Sharing # {}
    /\ cls.match.best_okr_idx \in Scored

\* C18 witness: the document has a short and a long acronym, one objective
\* shares the long one only and another the short one, and only the latter
\* was scored.
C18_Witness ==
  /\ cls.pc = "matched"
  /\ cls.pr_text.acronyms = {"UI", "KUBERNETES"}
  /\ Len(cls.okr_data) = 2
  /\ cls.okr_data[1].acronyms = {"KUBERNETES"} /\ cls.okr_data[1].sim = 67
  /\ cls.okr_data[2].acronyms = {"UI"} /\ cls.okr_data[2].sim = 30
  /\ cls.match.was_filtered /\ cls.match.best_okr_idx = 2

\* The call has returned and pruning by acronyms had narrowed the catalog of
\* two or more objectives to exactly one.
PrunedToOne ==
  /\ cls.pc = "returned" /\ ~cls.pr_text.blank
  /\ Len(cls.okr_data) > 1
  /\ Cardinality(Sharing) = 1

\* The only objective left by the pruning.
TheOne == CHOOSE j \in Sharing : TRUE

\* The result is an objective match on objective j.
MatchOn(j) == cls.result.classification_type = "okr" /\ cls.result.okr_idx = j

\* C19 as stated: when pruning narrows the candidates to exactly one
\* objective whose similarity to the document is at least score_threshold,
\* the result is an objective match on that objective, for every
\* score_threshold and margin_threshold in [0,1].
C19_SimilarityAboveThreshold ==
  (PrunedToOne /\ cls.okr_data[TheOne].sim >= cls.score_threshold) => MatchOn(TheOne)

\* C19 amended: when pruning narrows the candidates to exactly one
\* objective, the result is an objective match on that objective exactly
\* when its hybrid score is at least score_threshold, for every
\* margin_threshold in [0,1]; a similarity of at least score_threshold is
\* enough for that when score_threshold is at most 0.66.
C19_ScoreAboveThreshold ==
  PrunedToOne =>
    /\ MatchOn(TheOne) <=> ScoreOf(TheOne) >= AsScore(cls.score_threshold)
    /\ (cls.score_threshold <= 66 /\ cls.okr_data[TheOne].sim >= cls.score_threshold)
          => MatchOn(TheOne)

\* C19 witness: of three objectives only the second shares the acronym of
\* the document; its similarity equals the score threshold of 0.66, the
\* margin threshold is 1.0, and the result is a match on it.
C19_Witness ==
  /\ PrunedToOne /\ Len(cls.okr_data) = 3 /\ TheOne = 2
  /\ cls.okr_data[2].sim = 66 /\ cls.score_threshold = 66 /\ cls.margin_threshold = 100
  /\ cls.okr_data[1].sim = 67
  /\ MatchOn(2)

\* The number of keywords objective j shares with the document of the call.
SharedKeywords(j) ==
  Cardinality(tokenize_words(cls.pr_text) \cap okr_keywords(cls.okr_data[j]))

\* The number of acronyms objective j shares with the document of the call.
SharedAcronyms(j) == Cardinality(cls.pr_text.acronyms \cap cls.okr_data[j].acronyms)

\* Objectives a and b were both scored, with the same similarity; a shares
\* three keywords with the document and b none.
LexicalTie(a, b) ==
  /\ cls.pc \in {"matched", "returned"} /\ ~cls.pr_text.blank
  /\ {a, b} \subseteq Scored
  /\ cls.okr_data[a].sim = cls.okr_data[b].sim
  /\ SharedKeywords(a) = 3 /\ SharedKeywords(b) = 0

\* C20 as stated: of two candidate objectives with the same embedding
\* similarity to the document, one sharing three keywords with it and the
\* other none, the first has the strictly higher hybrid score.
C20_KeywordsWin ==
  \A a, b \in 1..Len(cls.okr_data) :
    LexicalTie(a, b) => ScoreOf(a) > ScoreOf(b)

\* C20 amended: of two candidate objectives with the same embedding
\* similarity to the document, one sharing three keywords with it and the
\* other none, the first has the strictly higher hybrid score when it
\* matches at least as many acronyms of the document as the second; with
\* two candidates it is then the best objective, with a margin above zero.
C20_KeywordsWinAtEqualAcronyms ==
  \A a, b \in 1..Len(cls.okr_data) :
    (LexicalTie(a, b) /\ SharedAcronyms(a) >= SharedAcronyms(b)) =>
      /\ ScoreOf(a) > ScoreOf(b)
      /\ Len(cls.okr_data) = 2 =>
           /\ cls.match.best_okr_idx = a
           /\ cls.match.best_score = ScoreOf(a)
           /\ cls.match.margin = ScoreOf(a) - ScoreOf(b)

\* C20 witness: the second objective shares three of its five keywords with
\* the document, the first none; both share the one acronym of the
\* document, and the second is the best with a margin of 0.12 * 3/5.
C20_Witness ==
  /\ LexicalTie(2, 1) /\ cls.pc = "matched"
  /\ cls.okr_data[2].keywords = TieWords /\ cls.okr_data[1].keywords = {"queue"}
  /\ cls.pr_text.acronyms = {"UI"}
  /\ cls.pr_text.words = {"cache", "latency", "retry"}
  /\ SharedAcronyms(1) = 1 /\ SharedAcronyms(2) = 1
  /\ cls.match.best_okr_idx = 2
  /\ cls.match.margin * 5 = AsScore(LEXICAL_WEIGHT) * 3

(***************************************************************************)
(* Properties of hybrid_score                                              *)
(***************************************************************************)

\* The keywords shared by the two word sets of call c, and all of them.
Shared(c) == Cardinality(c.pr_words \cap c.okr_words)
United(c) == Max(1, Cardinality(c.pr_words \cup c.okr_words))

\* The Jaccard overlap of call c is at most, or equal to, that of call e.
JaccardAtMost(c, e) == Shared(c) * United(e) <= Shared(e) * United(c)
JaccardSame(c, e) == Shared(c) * United(e) = Shared(e) * United(c)

\* C21: hybrid_score never returns less when the embedding similarity, the
\* Jaccard keyword overlap or the number of matching acronyms is raised and
\* the other two are kept; from 3 matching acronyms on (the cap 0.24) more
\* of them change nothing.
C21_Monotone ==
  LET c == hs.prev
      e == hs.cur
  IN (c.called /\ e.called) =>
       /\ (/\ c.embed_sim <= e.embed_sim /\ JaccardSame(c, e)
           /\ c.acronym_overlap = e.acronym_overlap) => c.score <= e.score
       /\ (/\ c.embed_sim = e.embed_sim /\ JaccardAtMost(c, e)
           /\ c.acronym_overlap = e.acronym_overlap) => c.score <= e.score
       /\ (/\ c.embed_sim = e.embed_sim /\ JaccardSame(c, e)
           /\ c.acronym_overlap <= e.acronym_overlap) => c.score <= e.score
       /\ (/\ c.embed_sim = e.embed_sim /\ JaccardSame(c, e)
           /\ c.acronym_overlap * ACRONYM_BOOST_PER_MATCH >= ACRONYM_BOOST_MAX
           /\ e.acronym_overlap * ACRONYM_BOOST_PER_MATCH >= ACRONYM_BOOST_MAX)
            => c.score = e.score

\* C21 witness: two calls that differ in the number of matching acronyms
\* only, 3 and then 4, have returned the same score.
C21_Witness ==
  /\ hs.prev.called /\ hs.cur.called
  /\ hs.prev.acronym_overlap = 3 /\ hs.cur.acronym_overlap = 4
  /\ hs.prev.embed_sim = 30 /\ hs.cur.embed_sim = 30
  /\ hs.prev.pr_words = {"cache"} /\ hs.cur.pr_words = {"cache"}
  /\ hs.prev.okr_words = {"cache", "latency"} /\ hs.cur.okr_words = {"cache", "latency"}
  /\ hs.prev.score = hs.cur.score

(***************************************************************************)
(* Further properties of classify_one_pr                                   *)
(***************************************************************************)

\* C22: every result of classify_one_pr, objective match or fallback, has
\* its margin and its confidence between 0 and 1.
C22_UnitInterval ==
  cls.pc = "returned" =>
    /\ 0 <= cls.result.confidence /\ cls.result.confidence <= ScoreOne
    /\ 0 <= cls.result.margin /\ cls.result.margin <= ScoreOne

(***************************************************************************)
(* Properties of the embedding strategy                                    *)
(***************************************************************************)

\* C23: a document with more than 8000 estimated tokens is split into at
\* least 2 and at most 4 chunks, each overlapping the next, and the
\* similarity kept for a candidate is the largest of its similarities to
\* the chunks.
C23_ChunksAndMax ==
  (emb.pc \in {"embedded", "compared"} /\ emb.tokens > TOKEN_LIMIT) =>
    /\ Len(emb.chunks) >= 2 /\ Len(emb.chunks) <= MAX_CHUNKS
    /\ \A c \in 1..(Len(emb.chunks) - 1) : emb.chunks[c + 1].from < emb.chunks[c].to
    /\ emb.pc = "compared" =>
         \A j \in 1..2 :
           /\ \A c \in 1..Len(emb.chunks) : emb.sims[c][j] <= emb.max_sims[j]
           /\ \E c \in 1..Len(emb.chunks) : emb.sims[c][j] = emb.max_sims[j]

(***************************************************************************)
(* Properties of the strategy and the cost of an invocation                *)
(***************************************************************************)

\* C24: within one invocation every document is classified with the one
\* strategy that the configuration fixes: embeddings when an API key is
\* configured, TF-IDF when none is.
C24_OneStrategy ==
  \A p \in Procs :
    run[p].used \subseteq {IF run[p].openai_api_key THEN "embedding" ELSE "tfidf"}

\* C25: the checkpoint of a key carries the cumulative cost of the documents
\* classified under the key: when an invocation has run to its end, it
\* equals the sum of their costs.
C25_CostInCheckpoint ==
  run[1].pc = "done" =>
    \A k \in Keys : cp[k].exists => cumulative_cost_usd(cp[k]) = spent[k]

(***************************************************************************)
(* Two invocations at the same time.                                       *)
(***************************************************************************)

\* Row i of key k is classified with success by an invocation that reaches
\* it: its document is downloaded and its outcome is not a failure.
Good(k, i) == Row(k, i) \notin missing /\ <<k[1], Row(k, i), "fail">> \notin resp

\* Row i of key k is passed over as already classified by one uninterrupted
\* invocation with setting f that starts with no MatchResult of the user:
\* the document got its MatchResult in the authored list of the same user.
SeqSkipped(f, k, i) ==
  /\ ~f /\ k[2] = "reviewer" /\ Good(k, i)
  /\ \E j \in Rows(<<k[1], "authored">>) : Row(<<k[1], "authored">>, j) = Row(k, i)

\* The status file of key k after one uninterrupted invocation with setting
\* f that is alone with the files of the user and starts from nothing.
SeqStatus(f, k) ==
  save_status([NotStarted EXCEPT
    !.status = "completed",
    !.current_row = total[k],
    !.mapped_count = Cardinality({i \in Rows(k) : Good(k, i) /\ ~SeqSkipped(f, k, i)}),
    !.skipped_count = Cardinality({i \in Rows(k) : SeqSkipped(f, k, i)})])

\* The MatchResults of user u after such an invocation.
SeqResults(u) ==
  {x \in Expected(u) : \E k \in KeysOf(u) : \E i \in Rows(k) : Row(k, i) = x[2]}

\* C26: two invocations at the same time on disjoint sets of users are safe:
\* whatever the interleaving, when an invocation has come to its end the
\* status files and the MatchResults of its user are those that an
\* invocation alone with the files leaves: every list completed at its
\* total with the counts of one uninterrupted run (with the force setting
\* of this invocation if it classified anything), and a user without
\* objectives untouched.
C26_DisjointIsSequential ==
  \A p \in Procs :
    run[p].pc = "done"
      => LET u == run[p].users[1] IN
         IF okrs[u]
         THEN /\ {x \in results : x[1] = u} = SeqResults(u)
              /\ \E f \in BOOLEAN :
                   /\ run[p].written # {} => f = run[p].force
                   /\ \A k \in KeysOf(u) : cp[k] = SeqStatus(f, k)
         ELSE /\ {x \in results : x[1] = u} = {}
              /\ \A k \in KeysOf(u) : cp[k] = NotStarted

\* C26 witness: both invocations have come to their end, each having
\* classified a document of its own user and completed the list.
C26_Witness ==
  /\ run[1].pc = "done" /\ run[2].pc = "done"
  /\ run[1].written # {} /\ run[2].written # {}
  /\ cp[<<users[1], "authored">>] = SeqStatus(run[1].force, <<users[1], "authored">>)
  /\ cp[<<users[1], "authored">>].mapped_count = 1
  /\ cp[<<users[2], "authored">>].mapped_count = 1

\* C27: nothing guards a key against a second invocation.  An invocation
\* reads the status file once, when it takes the key; every later write of
\* the file puts there its own in-memory copy, whose current_row is the row
\* it just did, whatever the file holds at that moment; and the decision to
\* classify a document looks at the MatchResults only.  So of two
\* invocations on one key with force_recalculate off, both can classify the
\* same document, and one can put a smaller current_row and mapped_count
\* over what the other has persisted (the witness).
C27_WritesOwnCopy ==
  [][\A p \in Procs :
       /\ (run[p].pc \in SavePcs /\ run'[p] # run[p])
          => /\ cp'[KeyOf(p)] = save_status(run[p].okr_status)
             /\ cp'[KeyOf(p)].current_row = run[p].idx + 1
             /\ run'[p].pc = "doc" /\ run'[p].okr_status = run[p].okr_status
       /\ (run[p].pc \in LoopPcs /\ run'[p].pc \in LoopPcs)
          => /\ run'[p].okr_status.current_row >= run[p].okr_status.current_row
             /\ run'[p].okr_status.mapped_count >= run[p].okr_status.mapped_count
       /\ (run[p].pc = "doc" /\ run'[p].pc = "classify")
          => /\ ~check_okrs_exist(run[p].users[run[p].ui], DocOf(p))
             /\ run[p].idx < run[p].total_prs
    ]_vars

\* C27 witness: both invocations, with force_recalculate off and on the same
\* key, have classified the same document, and the status file now holds a
\* current_row and a mapped_count smaller than those the first process
\* wrote there in its last write (it is at the head of the loop, after the
\* write): the second process has put its stale copy over them.
C27_Witness ==
  /\ run[1].pc = "doc" /\ run[2].pc = "doc"
  /\ ~run[1].force /\ ~run[2].force
  /\ KeyOf(1) = KeyOf(2)
  /\ run[1].written \cap run[2].written # {}
  /\ cp[KeyOf(1)].current_row < run[1].okr_status.current_row
  /\ cp[KeyOf(1)].mapped_count < run[1].okr_status.mapped_count
  /\ cp[KeyOf(1)] = save_status(run[2].okr_status)

(***************************************************************************)
(* The counts of the status file.                                          *)
(***************************************************************************)

\* C28: with one process at a time over fixed lists, through any sequence
\* of invocations, kills and resumes, every status file written satisfies
\* mapped_count + skipped_count <= current_row <= number of rows of the
\* list, and one whose status is not_started has current_row, mapped_count
\* and skipped_count at 0.
C28_CountsWithinRows ==
  \A k \in Keys :
    cp[k].exists
      => /\ cp[k].mapped_count + cp[k].skipped_count <= cp[k].current_row
         /\ cp[k].current_row <= total[k]
         /\ cp[k].status = "not_started"
              => cp[k].current_row = 0 /\ cp[k].mapped_count = 0 /\ cp[k].skipped_count = 0

\* C28 witness: after a kill and a resume the authored list of the first
\* user is in progress at row 2 with one document passed over and none
\* classified by the invocations that got to persist their count.
C28_Witness ==
  /\ cp[<<users[1], "authored">>].exists
  /\ cp[<<users[1], "authored">>].status = "in_progress"
  /\ cp[<<users[1], "authored">>].current_row = 2
  /\ cp[<<users[1], "authored">>].skipped_count = 1
  /\ cp[<<users[1], "authored">>].mapped_count = 0
  /\ run[1].pc = "doc"

(***************************************************************************)
(* Documents that are passed without a MatchResult.                        *)
(***************************************************************************)

\* Process p has come to the document in hand: it found it not downloaded,
\* passed it over, or is classifying it or has classified it.
Visiting(p) == run[p].pc \in {"classify"} \cup SavePcs

\* Row i of key k holds a document that gets no MatchResult (not downloaded,
\* or its classification fails), the persisted current_row is past it, and
\* it was not this invocation of p that passed it before the row in hand:
\* an earlier invocation did.
PassedBefore(p, k, i) ==
  /\ i <= cp[k].current_row
  /\ Row(k, i) \in missing \/ <<k[1], Row(k, i), "fail">> \in resp
  /\ <<k[1], k[2], i - 1>> \notin
       run[p].passed \ {<<run[p].users[run[p].ui], task_types[run[p].ti], run[p].idx>>}

\* What passing a document without a MatchResult does: finding it not
\* downloaded, or failing to classify it, writes no MatchResult, leaves
\* mapped_count, skipped_count and the count for the cap as they are and
\* sets current_row past the document; the next step of the process writes
\* that to the status file.
PassFrame(p) ==
  /\ (\/ run[p].pc = "doc" /\ run'[p].pc = "save_notdl"
      \/ run[p].pc = "classify" /\ run'[p].pc = "save_fail")
     => /\ results' = results /\ cp' = cp
        /\ run'[p].okr_status.current_row = run[p].idx + 1
        /\ run'[p].okr_status.mapped_count = cp[KeyOf(p)].mapped_count
        /\ run'[p].okr_status.skipped_count = cp[KeyOf(p)].skipped_count
        /\ run'[p].user_classified = run[p].user_classified
        /\ run'[p].written = run[p].written
  /\ (run[p].pc \in {"save_notdl", "save_fail"} /\ run'[p] # run[p])
     => \/ run'[p].pc = "idle" /\ cp' = cp /\ results' = results
        \/ /\ run'[p].pc = "doc" /\ run'[p].idx = run[p].idx + 1
           /\ results' = results
           /\ cp'[KeyOf(p)].current_row = run[p].idx + 1
           /\ cp'[KeyOf(p)].mapped_count = cp[KeyOf(p)].mapped_count
           /\ cp'[KeyOf(p)].skipped_count = cp[KeyOf(p)].skipped_count

\* C29 (as claimed): a document that is not downloaded, or whose
\* classification fails, is passed as PassFrame says, and once the status
\* file with current_row past it is written, no later invocation with
\* force_recalculate off comes to that document again.
C29_NeverVisitedAgain ==
  [][\A p \in Procs :
       /\ PassFrame(p)
       /\ (Visiting(p) /\ ~run[p].force)
          => \A k \in KeysOf(run[p].users[run[p].ui]) : \A i \in Rows(k) :
               Row(k, i) = DocOf(p) => ~PassedBefore(p, k, i)
    ]_vars

\* C29 (amended): such a document is passed as PassFrame says, and once the
\* status file with current_row past it is written, no later invocation
\* with force_recalculate off comes again to that row of that list; when
\* the document is also in the other list of the user, the invocation that
\* does that list comes to it again.
C29_RowNeverVisitedAgain ==
  [][\A p \in Procs :
       /\ PassFrame(p)
       /\ (Visiting(p) /\ ~run[p].force)
          => \A i \in Rows(KeyOf(p)) :
               Row(KeyOf(p), i) = DocOf(p) => ~PassedBefore(p, KeyOf(p), i)
       /\ (run[p].pc \in LoopPcs /\ ~run[p].force)
          => \A i \in Rows(KeyOf(p)) :
               PassedBefore(p, KeyOf(p), i) => i <= run[p].idx
    ]_vars

\* C29 witness: an invocation with force_recalculate off has resumed the
\* authored list of the first user behind its first document, which an
\* earlier invocation found not downloaded or failed to classify, and has
\* classified the second document.
C29_Witness ==
  /\ run[1].pc = "save_ok" /\ ~run[1].force
  /\ run[1].ui = 1 /\ run[1].ti = 1 /\ run[1].idx = 1
  /\ PassedBefore(1, <<users[1], "authored">>, 1)
  /\ run[1].passed = {}
  /\ ~check_okrs_exist(users[1], 1)

(***************************************************************************)
(* A kill between the write of a MatchResult and the write of the status.  *)
(***************************************************************************)

\* The rows of key k that the persisted current_row is past and whose
\* document has a MatchResult of the user.
ResultsBehind(k) ==
  {i \in Rows(k) : i <= cp[k].current_row /\ check_okrs_exist(k[1], Row(k, i))}

\* C30: a kill after the MatchResult of a document is written and before the
\* status file is, leaves the MatchResult with the persisted current_row
\* still at the document.  The next invocation with force_recalculate off
\* that takes the key comes to the document again, finds the MatchResult,
\* leaves the MatchResults as they are and counts the document in
\* skipped_count, not in mapped_count.  So mapped_count + skipped_count is
\* the number of persisted rows that have a MatchResult, mapped_count alone
\* can be smaller, and every MatchResult is the fixed outcome of its
\* document, as without the kill.
C30_KilledAfterWriteIsSkipped ==
  [][/\ \A p \in Procs :
          /\ (run[p].pc = "save_ok" /\ run'[p].pc = "idle")
             => /\ cp' = cp /\ results' = results
                /\ cp[KeyOf(p)].current_row = run[p].idx
                /\ check_okrs_exist(run[p].users[run[p].ui], DocOf(p))
          /\ (/\ InHand(p) /\ ~run[p].force
              /\ check_okrs_exist(run[p].users[run[p].ui], DocOf(p))
              /\ run'[p] # run[p])
             => \/ run'[p].pc = "idle"
                \/ /\ run'[p].pc = "save_skip"
                   /\ results' = results /\ cp' = cp
                   /\ run'[p].okr_status.skipped_count = cp[KeyOf(p)].skipped_count + 1
                   /\ run'[p].okr_status.mapped_count = cp[KeyOf(p)].mapped_count
                   /\ run'[p].written = run[p].written
     /\ \A k \in Keys :
          /\ cp[k].mapped_count + cp[k].skipped_count = Cardinality(ResultsBehind(k))
          /\ cp[k].mapped_count <= Cardinality(ResultsBehind(k))
     /\ \A u \in UserSet : {x \in results : x[1] = u} \subseteq Expected(u)
    ]_vars

\* C30 witness: the first document of the authored list of the first user
\* has its MatchResult, and the status file counts it as passed over and
\* not as classified: the invocation that classified it was killed before
\* it wrote the status, and an invocation with force_recalculate off has
\* come to it again.
C30_Witness ==
  /\ run[1].pc = "doc" /\ ~run[1].force /\ run[1].ui = 1 /\ run[1].ti = 1
  /\ run[1].idx = 1 /\ run[1].written = {}
  /\ check_okrs_exist(users[1], 1)
  /\ cp[<<users[1], "authored">>].current_row = 1
  /\ cp[<<users[1], "authored">>].skipped_count = 1
  /\ cp[<<users[1], "authored">>].mapped_count = 0

====
